---- MODULE Spec2Model ----
(***************************************************************************)
(* Line modification tracking of the undo ledger (katemodifiedundo.cpp)     *)
(* and the column arithmetic and attribute runs of one text line           *)
(* (katetextline.cpp).                                                     *)
(*                                                                         *)
(* The document is a sequence of text lines, each with its text and the    *)
(* two flags modified / savedOnDisk.  The ledger holds the applied         *)
(* (undoable) records in undoItems and the undone (redoable) records in    *)
(* redoItems; the last element of each list is the one next to be undone   *)
(* resp. redone.  Line indices and columns are 0-based as in the source,   *)
(* sequences are 1-based.                                                  *)
(***************************************************************************)
EXTENDS Integers, Sequences, FiniteSets, TLC

\* Bound of the model: the number of edits made in one run.  It bounds the
\* length of the ledger and the growth of the document.
MaxEdits == 2

\* The texts of the lines of the documents loaded at start.
InitDocs ==
    {<<(<<"a", "a">>)>>,
     <<(<<"a">>), (<<"a">>)>>,
     <<(<<>>), (<<"a">>)>>,
     <<(<<"a">>), (<<>>)>>}

\* Bounds of the text line studied on its own: the length of its text, the
\* tab widths, and the end of the last attribute run.
MaxTextLen == 3

MaxTabWidth == 4

MaxOffset == 5

\* Vi registers: the longest content a named register is appended to, and
\* the longest list of a configuration entry.
MaxContentLen == 2

MaxEntries == 2

\* Search line: the longest text typed, and the most timers pending at once.
MaxSearchLen == 2

MaxTimers == 3

\* The texts an edit inserts.
InsertTexts == {<<"a">>}

\* The texts of the lines an edit inserts.
InsertLineTexts == {<<"a">>}

\* doc, undoItems and redoItems are the program's state.  The others are
\* history variables: edits counts the edits made, lastOp names the last
\* operation, pre holds the states of the line (l1) and of the following
\* line (l2) that the most recently constructed record found, and hist is
\* what happened to that record since.
VARIABLES doc, undoItems, redoItems, edits, lastOp, pre, hist

\* One more history variable: right after an undo, the modified/savedOnDisk
\* flags the lines had just before it (empty otherwise).
VARIABLES preUndo

\* The text line studied on its own: its text, its attribute runs, and the
\* last call made on it with its result.
VARIABLES m_text, m_attributesList, call

\* The Vi registers studied on their own: the named registers, the kill
\* ring, the register the unnamed register stands for, and the system
\* clipboard.  rcall is a history variable: the last call with its
\* arguments, the size of the kill ring it found, and the register most
\* recently set among those the unnamed register can stand for.
VARIABLES m_registers, m_numbered, m_default, clipboard, rcall

\* The search line of the mode menu: the text of the line edit, the fields
\* of SearchLine, and the number of single-shot timers pending.  scall is a
\* history variable: the last handler, the texts updateSearch ran with
\* inside it, the text most recently queued, the text updateSearch last
\* ran with, and whether the text has changed since.
VARIABLES lineEdit, m_search, m_queuedSearches, m_bSearchStateAutoScroll, timers, scall

ledgerVars == <<doc, undoItems, redoItems, edits, lastOp, pre, hist, preUndo>>

lineVars == <<m_text, m_attributesList, call>>

registerVars == <<m_registers, m_numbered, m_default, clipboard, rcall>>

searchVars == <<lineEdit, m_search, m_queuedSearches, m_bSearchStateAutoScroll, timers, scall>>

vars ==
    <<doc, undoItems, redoItems, edits, lastOp, pre, hist, preUndo, m_text, m_attributesList, call,
      m_registers, m_numbered, m_default, clipboard, rcall,
      lineEdit, m_search, m_queuedSearches, m_bSearchStateAutoScroll, timers, scall>>

-----------------------------------------------------------------------------
(* Texts and text lines *)

\* Ghost value of a line's disk field: the line was created or restructured
\* since the last save, so no on-disk content is attributed to it.
NoDisk == <<"?">>

\* A text line: its text and the two flags.  disk is a ghost field holding
\* the text written for this line by the last save (or read at load time).
TextLine(text, modified, savedOnDisk, disk) ==
    [text |-> text, modified |-> modified, savedOnDisk |-> savedOnDisk, disk |-> disk]

length(tl) == Len(tl.text)

markedAsModified(tl) == tl.modified

markedAsSavedOnDisk(tl) == tl.savedOnDisk

markAsModified(tl, modified) == [tl EXCEPT !.modified = modified]

markAsSavedOnDisk(tl, savedOnDisk) == [tl EXCEPT !.savedOnDisk = savedOnDisk]

plainKateTextLine(document, line) == document[line + 1]

\* The two marks every undo()/redo() puts on an affected line.
markLine(document, line, modified, savedOnDisk) ==
    [document EXCEPT ![line + 1] = markAsSavedOnDisk(markAsModified(@, modified), savedOnDisk)]

-----------------------------------------------------------------------------
(* Text mutations of the document (the base edit primitives) *)

editInsertText(document, line, col, s) ==
    LET t == document[line + 1].text
    IN [document EXCEPT ![line + 1].text = SubSeq(t, 1, col) \o s \o SubSeq(t, col + 1, Len(t))]

editRemoveText(document, line, col, len) ==
    LET t == document[line + 1].text
    IN [document EXCEPT ![line + 1].text = SubSeq(t, 1, col) \o SubSeq(t, col + len + 1, Len(t))]

\* Split line at col; the text from col on moves to a new line at line + 1.
editWrapLine(document, line, col) ==
    LET tl == document[line + 1]
        t == tl.text
    IN SubSeq(document, 1, line)
       \o <<[tl EXCEPT !.text = SubSeq(t, 1, col), !.disk = NoDisk]>>
       \o <<TextLine(SubSeq(t, col + 1, Len(t)), FALSE, FALSE, NoDisk)>>
       \o SubSeq(document, line + 2, Len(document))

\* Join line + 1 to the end of line; line + 1 disappears.
editUnWrapLine(document, line) ==
    LET tl == document[line + 1]
        nextLine == document[line + 2]
    IN SubSeq(document, 1, line)
       \o <<[tl EXCEPT !.text = tl.text \o nextLine.text, !.disk = NoDisk]>>
       \o SubSeq(document, line + 3, Len(document))

editInsertLine(document, line, s) ==
    SubSeq(document, 1, line)
    \o <<TextLine(s, FALSE, FALSE, NoDisk)>>
    \o SubSeq(document, line + 1, Len(document))

editRemoveLine(document, line) ==
    SubSeq(document, 1, line) \o SubSeq(document, line + 2, Len(document))

-----------------------------------------------------------------------------
(* One text line: column arithmetic and attribute runs (katetextline.cpp) *)

Tab == "\t"

Chars == {"x", " ", Tab}

Texts == UNION {[1..n -> Chars] : n \in 0..MaxTextLen}

TabWidths == 1..MaxTabWidth

\* The columns asked for: from a negative one to one past the widest line.
Columns == -1..(MaxTextLen * MaxTabWidth + 1)

AttributeValues == {1, 2}

AttributeLengths == {1, 2}

Positions == -1..(MaxOffset + 1)

\* The character indices asked for: from a negative one to past the end.
Indices == -1..(MaxTextLen + 1)

\* The patterns matched against the line.
Patterns == UNION {[1..n -> Chars] : n \in 0..2}

qMin(a, b) == IF a < b THEN a ELSE b

qMax(a, b) == IF a > b THEN a ELSE b

\* The loop of toVirtualColumn: x after the characters z .. zmax - 1.
RECURSIVE toVirtualColumnLoop(_, _, _, _, _)
toVirtualColumnLoop(text, z, zmax, x, tabWidth) ==
    IF z >= zmax THEN x
    ELSE toVirtualColumnLoop(text, z + 1, zmax,
                             IF text[z + 1] = Tab THEN x + (tabWidth - (x % tabWidth)) ELSE x + 1,
                             tabWidth)

RECURSIVE toVirtualColumnLoop_TabIsTabWidth(_, _, _, _, _)
toVirtualColumnLoop_TabIsTabWidth(text, z, zmax, x, tabWidth) ==
    IF z >= zmax THEN x
    ELSE toVirtualColumnLoop_TabIsTabWidth(text, z + 1, zmax,
                                           IF text[z + 1] = Tab THEN x + tabWidth ELSE x + 1,
                                           tabWidth)

toVirtualColumn_TabIsTabWidth(text, column, tabWidth) ==
    IF column < 0 THEN 0
    ELSE LET zmax == qMin(column, Len(text))
         IN toVirtualColumnLoop_TabIsTabWidth(text, 0, zmax, 0, tabWidth) + column - zmax

toVirtualColumn_NoExcess(text, column, tabWidth) ==
    IF column < 0 THEN 0
    ELSE LET zmax == qMin(column, Len(text))
         IN toVirtualColumnLoop(text, 0, zmax, 0, tabWidth)

toVirtualColumn(text, column, tabWidth) ==
    IF column < 0 THEN 0
    ELSE LET zmax == qMin(column, Len(text))
         IN toVirtualColumnLoop(text, 0, zmax, 0, tabWidth) + column - zmax

\* The loop of fromVirtualColumn: z and x when it ends or breaks.
RECURSIVE fromVirtualColumnLoop(_, _, _, _, _, _)
fromVirtualColumnLoop(text, z, zmax, x, column, tabWidth) ==
    IF z >= zmax THEN [z |-> z, x |-> x]
    ELSE LET diff == IF text[z + 1] = Tab THEN tabWidth - (x % tabWidth) ELSE 1
         IN IF x + diff > column
            THEN [z |-> z, x |-> x]
            ELSE fromVirtualColumnLoop(text, z + 1, zmax, x + diff, column, tabWidth)

fromVirtualColumn_BreaksAtEqual(text, column, tabWidth) ==
    IF column < 0 THEN 0
    ELSE LET zmax == qMin(Len(text), column)
             r == fromVirtualColumnLoop(text, 0, zmax, 0, column - 1, tabWidth)
         IN r.z + qMax(column - r.x, 0)

fromVirtualColumn_NoLeftover(text, column, tabWidth) ==
    IF column < 0 THEN 0
    ELSE LET zmax == qMin(Len(text), column)
             r == fromVirtualColumnLoop(text, 0, zmax, 0, column, tabWidth)
         IN r.z

fromVirtualColumn(text, column, tabWidth) ==
    IF column < 0 THEN 0
    ELSE LET zmax == qMin(Len(text), column)
             r == fromVirtualColumnLoop(text, 0, zmax, 0, column, tabWidth)
         IN r.z + qMax(column - r.x, 0)

virtualLength_TabIsOneColumn(text, tabWidth) == toVirtualColumnLoop(text, 0, Len(text), 0, 1)

virtualLength(text, tabWidth) == toVirtualColumnLoop(text, 0, Len(text), 0, tabWidth)

\* QChar::isSpace for the characters of the texts studied.
isSpace(c) == c \in {" ", Tab}

\* The loop of nextNonSpaceChar from index i on.
RECURSIVE nextNonSpaceCharLoop(_, _)
nextNonSpaceCharLoop(text, i) ==
    IF i >= Len(text) THEN -1
    ELSE IF ~isSpace(text[i + 1]) THEN i
    ELSE nextNonSpaceCharLoop(text, i + 1)

\* Called with pos >= 0 (Q_ASSERT).
nextNonSpaceChar(text, pos) == nextNonSpaceCharLoop(text, pos)

\* The loop of previousNonSpaceChar from index i down.
RECURSIVE previousNonSpaceCharLoop(_, _)
previousNonSpaceCharLoop(text, i) ==
    IF i < 0 THEN -1
    ELSE IF ~isSpace(text[i + 1]) THEN i
    ELSE previousNonSpaceCharLoop(text, i - 1)

previousNonSpaceChar_NoneWhenPastEnd(text, pos) ==
    IF pos >= Len(text) THEN -1 ELSE previousNonSpaceCharLoop(text, pos)

previousNonSpaceChar(text, pos) ==
    previousNonSpaceCharLoop(text, IF pos >= Len(text) THEN Len(text) - 1 ELSE pos)

firstChar(text) == nextNonSpaceChar(text, 0)

lastChar_BeforeLast(text) == previousNonSpaceChar(text, Len(text) - 2)

lastChar(text) == previousNonSpaceChar(text, Len(text) - 1)

\* The loop of indentDepth: d after the characters from i on, up to the
\* first one that is not whitespace.
RECURSIVE indentDepthLoop(_, _, _, _)
indentDepthLoop(text, i, d, tabWidth) ==
    IF i >= Len(text) THEN d
    ELSE IF isSpace(text[i + 1])
         THEN indentDepthLoop(text, i + 1,
                              IF text[i + 1] = Tab THEN d + (tabWidth - (d % tabWidth)) ELSE d + 1,
                              tabWidth)
         ELSE d

RECURSIVE indentDepthLoop_TabIsTabWidth(_, _, _, _)
indentDepthLoop_TabIsTabWidth(text, i, d, tabWidth) ==
    IF i >= Len(text) THEN d
    ELSE IF isSpace(text[i + 1])
         THEN indentDepthLoop_TabIsTabWidth(text, i + 1,
                                            IF text[i + 1] = Tab THEN d + tabWidth ELSE d + 1,
                                            tabWidth)
         ELSE d

indentDepth_TabIsTabWidth(text, tabWidth) == indentDepthLoop_TabIsTabWidth(text, 0, 0, tabWidth)

indentDepth(text, tabWidth) == indentDepthLoop(text, 0, 0, tabWidth)

\* The result of matchesAt together with the indices of the line it read.
Matched(result, reads) == [result |-> result, reads |-> reads]

\* The loop of matchesAt from index i of match on.
RECURSIVE matchesAtLoop(_, _, _, _, _)
matchesAtLoop(text, column, match, i, reads) ==
    IF i >= Len(match) THEN Matched(TRUE, reads)
    ELSE IF text[i + column + 1] # match[i + 1]
         THEN Matched(FALSE, reads \cup {i + column})
         ELSE matchesAtLoop(text, column, match, i + 1, reads \cup {i + column})

matchesAt_NotAtLineEnd(text, column, match) ==
    IF column < 0 THEN Matched(FALSE, {})
    ELSE IF (column + Len(match)) >= Len(text) THEN Matched(FALSE, {})
    ELSE matchesAtLoop(text, column, match, 0, {})

matchesAt(text, column, match) ==
    IF column < 0 THEN Matched(FALSE, {})
    ELSE IF (column + Len(match)) > Len(text) THEN Matched(FALSE, {})
    ELSE matchesAtLoop(text, column, match, 0, {})

\* An attribute run.
Attribute(offset, len, attributeValue) ==
    [offset |-> offset, length |-> len, attributeValue |-> attributeValue]

addAttribute(list, attribute) ==
    IF /\ list # <<>>
       /\ list[Len(list)].attributeValue = attribute.attributeValue
       /\ list[Len(list)].offset + list[Len(list)].length = attribute.offset
    THEN [list EXCEPT ![Len(list)].length = @ + attribute.length]
    ELSE Append(list, attribute)

\* std::upper_bound over [first, first + count) with the comparison
\* pos < x.offset + x.length; indices are 0-based, the result is the index
\* of the first run the comparison holds for (Len(list) if none).
RECURSIVE upper_bound(_, _, _, _)
upper_bound(list, first, count, pos) ==
    IF count <= 0 THEN first
    ELSE LET step == count \div 2
             it == first + step
         IN IF ~(pos < list[it + 1].offset + list[it + 1].length)
            THEN upper_bound(list, it + 1, count - (step + 1), pos)
            ELSE upper_bound(list, first, step, pos)

attribute_NoOffsetTest(list, pos) ==
    LET found == upper_bound(list, 0, Len(list), pos)
    IN IF found # Len(list) /\ pos < list[found + 1].offset + list[found + 1].length
       THEN list[found + 1].attributeValue
       ELSE 0

attribute(list, pos) ==
    LET found == upper_bound(list, 0, Len(list), pos)
    IN IF /\ found # Len(list)
          /\ list[found + 1].offset <= pos
          /\ pos < list[found + 1].offset + list[found + 1].length
       THEN list[found + 1].attributeValue
       ELSE 0

-----------------------------------------------------------------------------
(* Undo records and their flags *)

ModifiedFlags ==
    {"RedoLine1Modified", "RedoLine1Saved", "RedoLine2Modified", "RedoLine2Saved",
     "UndoLine1Modified", "UndoLine1Saved", "UndoLine2Modified", "UndoLine2Saved"}

setFlag(flags, flag) == flags \cup {flag}

unsetFlag(flags, flag) == flags \ {flag}

isFlagSet(flags, flag) == flag \in flags

\* An undo record: kind, position, payload and the flag set.
UndoItem(kind, line, col, text, len, flags) ==
    [kind |-> kind, line |-> line, col |-> col, text |-> text, len |-> len, flags |-> flags]

KateModifiedInsertText(document, line, col, text) ==
    LET tl == plainKateTextLine(document, line)
        f1 == setFlag({}, "RedoLine1Modified")
        f2 == IF markedAsModified(tl)
              THEN setFlag(f1, "UndoLine1Modified")
              ELSE setFlag(f1, "UndoLine1Saved")
    IN UndoItem("InsertText", line, col, text, Len(text), f2)

KateModifiedRemoveText_NoFlagWhenClean(document, line, col, text) ==
    LET tl == plainKateTextLine(document, line)
        f1 == setFlag({}, "RedoLine1Modified")
        f2 == IF markedAsModified(tl)
              THEN setFlag(f1, "UndoLine1Modified")
              ELSE IF markedAsSavedOnDisk(tl) THEN setFlag(f1, "UndoLine1Saved") ELSE f1
    IN UndoItem("RemoveText", line, col, text, Len(text), f2)

KateModifiedRemoveText(document, line, col, text) ==
    LET tl == plainKateTextLine(document, line)
        f1 == setFlag({}, "RedoLine1Modified")
        f2 == IF markedAsModified(tl)
              THEN setFlag(f1, "UndoLine1Modified")
              ELSE setFlag(f1, "UndoLine1Saved")
    IN UndoItem("RemoveText", line, col, text, Len(text), f2)

KateModifiedWrapLine_Line2FollowsLine(document, line, col, len) ==
    LET tl == plainKateTextLine(document, line)
        f1 == IF len > 0 \/ markedAsModified(tl)
              THEN setFlag({}, "RedoLine1Modified")
              ELSE IF markedAsSavedOnDisk(tl) THEN setFlag({}, "RedoLine1Saved") ELSE {}
        f2 == IF len = 0 \/ markedAsModified(tl)
              THEN setFlag(f1, "RedoLine2Modified")
              ELSE IF markedAsSavedOnDisk(tl) THEN setFlag(f1, "RedoLine2Saved") ELSE f1
        f3 == IF markedAsModified(tl)
              THEN setFlag(f2, "UndoLine1Modified")
              ELSE IF (len > 0 /\ col > 0) \/ markedAsSavedOnDisk(tl)
                   THEN setFlag(f2, "UndoLine1Saved")
                   ELSE f2
    IN UndoItem("WrapLine", line, col, <<>>, len, f3)

KateModifiedWrapLine_UndoMirrorsLine(document, line, col, len) ==
    LET tl == plainKateTextLine(document, line)
        f1 == IF len > 0 \/ markedAsModified(tl)
              THEN setFlag({}, "RedoLine1Modified")
              ELSE IF markedAsSavedOnDisk(tl) THEN setFlag({}, "RedoLine1Saved") ELSE {}
        f2 == IF col > 0 \/ len = 0 \/ markedAsModified(tl)
              THEN setFlag(f1, "RedoLine2Modified")
              ELSE IF markedAsSavedOnDisk(tl) THEN setFlag(f1, "RedoLine2Saved") ELSE f1
        f3 == IF markedAsModified(tl)
              THEN setFlag(f2, "UndoLine1Modified")
              ELSE IF markedAsSavedOnDisk(tl)
                   THEN setFlag(f2, "UndoLine1Saved")
                   ELSE f2
    IN UndoItem("WrapLine", line, col, <<>>, len, f3)

KateModifiedWrapLine(document, line, col, len) ==
    LET tl == plainKateTextLine(document, line)
        f1 == IF len > 0 \/ markedAsModified(tl)
              THEN setFlag({}, "RedoLine1Modified")
              ELSE IF markedAsSavedOnDisk(tl) THEN setFlag({}, "RedoLine1Saved") ELSE {}
        f2 == IF col > 0 \/ len = 0 \/ markedAsModified(tl)
              THEN setFlag(f1, "RedoLine2Modified")
              ELSE IF markedAsSavedOnDisk(tl) THEN setFlag(f1, "RedoLine2Saved") ELSE f1
        f3 == IF markedAsModified(tl)
              THEN setFlag(f2, "UndoLine1Modified")
              ELSE IF (len > 0 /\ col > 0) \/ markedAsSavedOnDisk(tl)
                   THEN setFlag(f2, "UndoLine1Saved")
                   ELSE f2
    IN UndoItem("WrapLine", line, col, <<>>, len, f3)

KateModifiedUnWrapLine(document, line, col, len) ==
    LET tl == plainKateTextLine(document, line)
        nextLine == plainKateTextLine(document, line + 1)
        len1 == length(tl)
        len2 == length(nextLine)
        flags ==
            IF len1 > 0 /\ len2 > 0 THEN
                LET f1 == setFlag({}, "RedoLine1Modified")
                    f2 == IF markedAsModified(tl)
                          THEN setFlag(f1, "UndoLine1Modified")
                          ELSE setFlag(f1, "UndoLine1Saved")
                IN IF markedAsModified(nextLine)
                   THEN setFlag(f2, "UndoLine2Modified")
                   ELSE setFlag(f2, "UndoLine2Saved")
            ELSE IF len1 = 0 THEN
                LET f1 == IF markedAsModified(nextLine)
                          THEN setFlag({}, "RedoLine1Modified")
                          ELSE IF markedAsSavedOnDisk(nextLine)
                               THEN setFlag({}, "RedoLine1Saved")
                               ELSE {}
                    f2 == IF markedAsModified(tl)
                          THEN setFlag(f1, "UndoLine1Modified")
                          ELSE setFlag(f1, "UndoLine1Saved")
                IN IF markedAsModified(nextLine)
                   THEN setFlag(f2, "UndoLine2Modified")
                   ELSE IF markedAsSavedOnDisk(nextLine)
                        THEN setFlag(f2, "UndoLine2Saved")
                        ELSE f2
            ELSE
                LET f1 == IF markedAsModified(nextLine)
                          THEN setFlag({}, "RedoLine1Modified")
                          ELSE IF markedAsSavedOnDisk(nextLine)
                               THEN setFlag({}, "RedoLine1Saved")
                               ELSE {}
                    f2 == IF markedAsModified(tl)
                          THEN setFlag(f1, "UndoLine1Modified")
                          ELSE IF markedAsSavedOnDisk(tl)
                               THEN setFlag(f1, "UndoLine1Saved")
                               ELSE f1
                IN IF markedAsModified(nextLine)
                   THEN setFlag(f2, "UndoLine2Modified")
                   ELSE setFlag(f2, "UndoLine2Saved")
    IN UndoItem("UnWrapLine", line, col, <<>>, len, flags)

KateModifiedInsertLine(line, text) ==
    UndoItem("InsertLine", line, 0, text, Len(text), setFlag({}, "RedoLine1Modified"))

KateModifiedRemoveLine(document, line, text) ==
    LET tl == plainKateTextLine(document, line)
    IN UndoItem("RemoveLine", line, 0, text, Len(text),
                IF markedAsModified(tl)
                THEN setFlag({}, "UndoLine1Modified")
                ELSE setFlag({}, "UndoLine1Saved"))

-----------------------------------------------------------------------------
(* undo() and redo() of the six record kinds: the inverse (resp. the       *)
(* original) text mutation, then the marks on the affected lines.          *)

KateModifiedInsertText_undo(document, item) ==
    markLine(editRemoveText(document, item.line, item.col, item.len), item.line,
             isFlagSet(item.flags, "UndoLine1Modified"), isFlagSet(item.flags, "UndoLine1Saved"))

KateModifiedRemoveText_undo(document, item) ==
    markLine(editInsertText(document, item.line, item.col, item.text), item.line,
             isFlagSet(item.flags, "UndoLine1Modified"), isFlagSet(item.flags, "UndoLine1Saved"))

KateModifiedWrapLine_undo_KeepWhenNoFlag(document, item) ==
    LET joined == editUnWrapLine(document, item.line)
    IN IF isFlagSet(item.flags, "UndoLine1Modified") \/ isFlagSet(item.flags, "UndoLine1Saved")
       THEN markLine(joined, item.line,
                     isFlagSet(item.flags, "UndoLine1Modified"), isFlagSet(item.flags, "UndoLine1Saved"))
       ELSE joined

KateModifiedWrapLine_undo(document, item) ==
    markLine(editUnWrapLine(document, item.line), item.line,
             isFlagSet(item.flags, "UndoLine1Modified"), isFlagSet(item.flags, "UndoLine1Saved"))

KateModifiedUnWrapLine_undo(document, item) ==
    LET d1 == markLine(editWrapLine(document, item.line, item.col), item.line,
                       isFlagSet(item.flags, "UndoLine1Modified"), isFlagSet(item.flags, "UndoLine1Saved"))
    IN markLine(d1, item.line + 1,
                isFlagSet(item.flags, "UndoLine2Modified"), isFlagSet(item.flags, "UndoLine2Saved"))

\* no line modification needed, since the line is removed
KateModifiedInsertLine_undo(document, item) ==
    editRemoveLine(document, item.line)

KateModifiedRemoveLine_undo_NoSavedMark(document, item) ==
    markLine(editInsertLine(document, item.line, item.text), item.line,
             isFlagSet(item.flags, "UndoLine1Modified"), FALSE)

KateModifiedRemoveLine_undo(document, item) ==
    markLine(editInsertLine(document, item.line, item.text), item.line,
             isFlagSet(item.flags, "UndoLine1Modified"), isFlagSet(item.flags, "UndoLine1Saved"))

KateModifiedRemoveText_redo_MarksNextLine(document, item) ==
    LET d1 == markLine(editRemoveText(document, item.line, item.col, item.len), item.line,
                       isFlagSet(item.flags, "RedoLine1Modified"), isFlagSet(item.flags, "RedoLine1Saved"))
    IN IF item.line + 1 < Len(d1)
       THEN markLine(d1, item.line + 1,
                     isFlagSet(item.flags, "RedoLine1Modified"), isFlagSet(item.flags, "RedoLine1Saved"))
       ELSE d1

KateModifiedRemoveText_redo(document, item) ==
    markLine(editRemoveText(document, item.line, item.col, item.len), item.line,
             isFlagSet(item.flags, "RedoLine1Modified"), isFlagSet(item.flags, "RedoLine1Saved"))

KateModifiedInsertText_redo_MarksSaved(document, item) ==
    markLine(editInsertText(document, item.line, item.col, item.text), item.line,
             isFlagSet(item.flags, "RedoLine1Saved"), isFlagSet(item.flags, "RedoLine1Modified"))

KateModifiedInsertText_redo(document, item) ==
    markLine(editInsertText(document, item.line, item.col, item.text), item.line,
             isFlagSet(item.flags, "RedoLine1Modified"), isFlagSet(item.flags, "RedoLine1Saved"))

KateModifiedUnWrapLine_redo(document, item) ==
    markLine(editUnWrapLine(document, item.line), item.line,
             isFlagSet(item.flags, "RedoLine1Modified"), isFlagSet(item.flags, "RedoLine1Saved"))

KateModifiedWrapLine_redo_Line2SavedToo(document, item) ==
    LET d1 == markLine(editWrapLine(document, item.line, item.col), item.line,
                       isFlagSet(item.flags, "RedoLine1Modified"), isFlagSet(item.flags, "RedoLine1Saved"))
    IN markLine(d1, item.line + 1,
                isFlagSet(item.flags, "RedoLine2Modified"),
                isFlagSet(item.flags, "RedoLine2Saved") \/ isFlagSet(item.flags, "UndoLine1Saved"))

KateModifiedWrapLine_redo(document, item) ==
    LET d1 == markLine(editWrapLine(document, item.line, item.col), item.line,
                       isFlagSet(item.flags, "RedoLine1Modified"), isFlagSet(item.flags, "RedoLine1Saved"))
    IN markLine(d1, item.line + 1,
                isFlagSet(item.flags, "RedoLine2Modified"), isFlagSet(item.flags, "RedoLine2Saved"))

\* no line modification needed, since the line is removed
KateModifiedRemoveLine_redo(document, item) ==
    editRemoveLine(document, item.line)

KateModifiedInsertLine_redo_NoMark(document, item) ==
    editInsertLine(document, item.line, item.text)

KateModifiedInsertLine_redo(document, item) ==
    markLine(editInsertLine(document, item.line, item.text), item.line,
             isFlagSet(item.flags, "RedoLine1Modified"), isFlagSet(item.flags, "RedoLine1Saved"))

\* Virtual dispatch on the record kind.
undo(document, item) ==
    CASE item.kind = "InsertText" -> KateModifiedInsertText_undo(document, item)
      [] item.kind = "RemoveText" -> KateModifiedRemoveText_undo(document, item)
      [] item.kind = "WrapLine"   -> KateModifiedWrapLine_undo(document, item)
      [] item.kind = "UnWrapLine" -> KateModifiedUnWrapLine_undo(document, item)
      [] item.kind = "InsertLine" -> KateModifiedInsertLine_undo(document, item)
      [] item.kind = "RemoveLine" -> KateModifiedRemoveLine_undo(document, item)

redo(document, item) ==
    CASE item.kind = "InsertText" -> KateModifiedInsertText_redo(document, item)
      [] item.kind = "RemoveText" -> KateModifiedRemoveText_redo(document, item)
      [] item.kind = "WrapLine"   -> KateModifiedWrapLine_redo(document, item)
      [] item.kind = "UnWrapLine" -> KateModifiedUnWrapLine_redo(document, item)
      [] item.kind = "InsertLine" -> KateModifiedInsertLine_redo(document, item)
      [] item.kind = "RemoveLine" -> KateModifiedRemoveLine_redo(document, item)

-----------------------------------------------------------------------------
(* The per-line marker bit array (QBitArray) *)

resize_ClearsMarkers(lines, size) == [i \in 1..size |-> FALSE]

resize(lines, size) ==
    IF size >= Len(lines)
    THEN lines \o [i \in 1..(size - Len(lines)) |-> FALSE]
    ELSE SubSeq(lines, 1, size)

testBit(lines, i) == lines[i + 1]

setBit(lines, i) == [lines EXCEPT ![i + 1] = TRUE]

\* Result of one update step: the record and the marker array after it.
Updated(item, lines) == [item |-> item, lines |-> lines]

-----------------------------------------------------------------------------
(* update{Redo,Undo}SavedOnDiskFlag of the six record kinds *)

KateModifiedInsertText_updateRedoSavedOnDiskFlag_KeepsModified(item, lines) ==
    LET l1 == IF item.line >= Len(lines) THEN resize(lines, item.line + 1) ELSE lines
    IN IF ~testBit(l1, item.line)
       THEN Updated([item EXCEPT !.flags = setFlag(@, "RedoLine1Saved")],
                    setBit(l1, item.line))
       ELSE Updated(item, l1)

KateModifiedInsertText_updateRedoSavedOnDiskFlag(item, lines) ==
    LET l1 == IF item.line >= Len(lines) THEN resize(lines, item.line + 1) ELSE lines
    IN IF ~testBit(l1, item.line)
       THEN Updated([item EXCEPT !.flags = setFlag(unsetFlag(@, "RedoLine1Modified"), "RedoLine1Saved")],
                    setBit(l1, item.line))
       ELSE Updated(item, l1)

KateModifiedInsertText_updateUndoSavedOnDiskFlag_NoRewrite(item, lines) ==
    LET l1 == IF item.line >= Len(lines) THEN resize(lines, item.line + 1) ELSE lines
    IN IF ~testBit(l1, item.line)
       THEN Updated(item, setBit(l1, item.line))
       ELSE Updated(item, l1)

KateModifiedInsertText_updateUndoSavedOnDiskFlag(item, lines) ==
    LET l1 == IF item.line >= Len(lines) THEN resize(lines, item.line + 1) ELSE lines
    IN IF ~testBit(l1, item.line)
       THEN Updated([item EXCEPT !.flags = setFlag(unsetFlag(@, "UndoLine1Modified"), "UndoLine1Saved")],
                    setBit(l1, item.line))
       ELSE Updated(item, l1)

KateModifiedRemoveText_updateRedoSavedOnDiskFlag(item, lines) ==
    LET l1 == IF item.line >= Len(lines) THEN resize(lines, item.line + 1) ELSE lines
    IN IF ~testBit(l1, item.line)
       THEN Updated([item EXCEPT !.flags = setFlag(unsetFlag(@, "RedoLine1Modified"), "RedoLine1Saved")],
                    setBit(l1, item.line))
       ELSE Updated(item, l1)

KateModifiedRemoveText_updateUndoSavedOnDiskFlag_KeepsModified(item, lines) ==
    LET l1 == IF item.line >= Len(lines) THEN resize(lines, item.line + 1) ELSE lines
    IN IF ~testBit(l1, item.line)
       THEN Updated([item EXCEPT !.flags = setFlag(@, "UndoLine1Saved")],
                    setBit(l1, item.line))
       ELSE Updated(item, l1)

KateModifiedRemoveText_updateUndoSavedOnDiskFlag(item, lines) ==
    LET l1 == IF item.line >= Len(lines) THEN resize(lines, item.line + 1) ELSE lines
    IN IF ~testBit(l1, item.line)
       THEN Updated([item EXCEPT !.flags = setFlag(unsetFlag(@, "UndoLine1Modified"), "UndoLine1Saved")],
                    setBit(l1, item.line))
       ELSE Updated(item, l1)

KateModifiedWrapLine_updateRedoSavedOnDiskFlag_NoMarkLine2(item, lines) ==
    LET l1 == IF item.line + 1 >= Len(lines) THEN resize(lines, item.line + 2) ELSE lines
        hit1 == isFlagSet(item.flags, "RedoLine1Modified") /\ ~testBit(l1, item.line)
        l2 == IF hit1 THEN setBit(l1, item.line) ELSE l1
        f2 == IF hit1
              THEN setFlag(unsetFlag(item.flags, "RedoLine1Modified"), "RedoLine1Saved")
              ELSE item.flags
        hit2 == isFlagSet(f2, "RedoLine2Modified") /\ ~testBit(l2, item.line + 1)
        f3 == IF hit2
              THEN setFlag(unsetFlag(f2, "RedoLine2Modified"), "RedoLine2Saved")
              ELSE f2
    IN Updated([item EXCEPT !.flags = f3], l2)

KateModifiedWrapLine_updateRedoSavedOnDiskFlag(item, lines) ==
    LET l1 == IF item.line + 1 >= Len(lines) THEN resize(lines, item.line + 2) ELSE lines
        hit1 == isFlagSet(item.flags, "RedoLine1Modified") /\ ~testBit(l1, item.line)
        l2 == IF hit1 THEN setBit(l1, item.line) ELSE l1
        f2 == IF hit1
              THEN setFlag(unsetFlag(item.flags, "RedoLine1Modified"), "RedoLine1Saved")
              ELSE item.flags
        hit2 == isFlagSet(f2, "RedoLine2Modified") /\ ~testBit(l2, item.line + 1)
        l3 == IF hit2 THEN setBit(l2, item.line + 1) ELSE l2
        f3 == IF hit2
              THEN setFlag(unsetFlag(f2, "RedoLine2Modified"), "RedoLine2Saved")
              ELSE f2
    IN Updated([item EXCEPT !.flags = f3], l3)

KateModifiedWrapLine_updateUndoSavedOnDiskFlag_TouchesRedo(item, lines) ==
    LET l1 == IF item.line >= Len(lines) THEN resize(lines, item.line + 1) ELSE lines
    IN IF isFlagSet(item.flags, "UndoLine1Modified") /\ ~testBit(l1, item.line)
       THEN Updated([item EXCEPT !.flags =
                        setFlag(unsetFlag(unsetFlag(@, "UndoLine1Modified"), "RedoLine1Modified"),
                                "UndoLine1Saved")],
                    setBit(l1, item.line))
       ELSE Updated(item, l1)

KateModifiedWrapLine_updateUndoSavedOnDiskFlag(item, lines) ==
    LET l1 == IF item.line >= Len(lines) THEN resize(lines, item.line + 1) ELSE lines
    IN IF isFlagSet(item.flags, "UndoLine1Modified") /\ ~testBit(l1, item.line)
       THEN Updated([item EXCEPT !.flags = setFlag(unsetFlag(@, "UndoLine1Modified"), "UndoLine1Saved")],
                    setBit(l1, item.line))
       ELSE Updated(item, l1)

KateModifiedUnWrapLine_updateRedoSavedOnDiskFlag_Unconditional(item, lines) ==
    LET l1 == IF item.line >= Len(lines) THEN resize(lines, item.line + 1) ELSE lines
    IN IF ~testBit(l1, item.line)
       THEN Updated([item EXCEPT !.flags = setFlag(unsetFlag(@, "RedoLine1Modified"), "RedoLine1Saved")],
                    setBit(l1, item.line))
       ELSE Updated(item, l1)

KateModifiedUnWrapLine_updateRedoSavedOnDiskFlag(item, lines) ==
    LET l1 == IF item.line >= Len(lines) THEN resize(lines, item.line + 1) ELSE lines
    IN IF isFlagSet(item.flags, "RedoLine1Modified") /\ ~testBit(l1, item.line)
       THEN Updated([item EXCEPT !.flags = setFlag(unsetFlag(@, "RedoLine1Modified"), "RedoLine1Saved")],
                    setBit(l1, item.line))
       ELSE Updated(item, l1)

KateModifiedUnWrapLine_updateUndoSavedOnDiskFlag(item, lines) ==
    LET l1 == IF item.line + 1 >= Len(lines) THEN resize(lines, item.line + 2) ELSE lines
        hit1 == isFlagSet(item.flags, "UndoLine1Modified") /\ ~testBit(l1, item.line)
        l2 == IF hit1 THEN setBit(l1, item.line) ELSE l1
        f2 == IF hit1
              THEN setFlag(unsetFlag(item.flags, "UndoLine1Modified"), "UndoLine1Saved")
              ELSE item.flags
        hit2 == isFlagSet(f2, "UndoLine2Modified") /\ ~testBit(l2, item.line + 1)
        l3 == IF hit2 THEN setBit(l2, item.line + 1) ELSE l2
        f3 == IF hit2
              THEN setFlag(unsetFlag(f2, "UndoLine2Modified"), "UndoLine2Saved")
              ELSE f2
    IN Updated([item EXCEPT !.flags = f3], l3)

KateModifiedInsertLine_updateRedoSavedOnDiskFlag(item, lines) ==
    LET l1 == IF item.line >= Len(lines) THEN resize(lines, item.line + 1) ELSE lines
    IN IF ~testBit(l1, item.line)
       THEN Updated([item EXCEPT !.flags = setFlag(unsetFlag(@, "RedoLine1Modified"), "RedoLine1Saved")],
                    setBit(l1, item.line))
       ELSE Updated(item, l1)

KateModifiedRemoveLine_updateUndoSavedOnDiskFlag(item, lines) ==
    LET l1 == IF item.line >= Len(lines) THEN resize(lines, item.line + 1) ELSE lines
    IN IF ~testBit(l1, item.line)
       THEN Updated([item EXCEPT !.flags = setFlag(unsetFlag(@, "UndoLine1Modified"), "UndoLine1Saved")],
                    setBit(l1, item.line))
       ELSE Updated(item, l1)

\* Virtual dispatch; the kinds that do not override a direction inherit the
\* base implementation, which does nothing.
updateRedoSavedOnDiskFlag(item, lines) ==
    CASE item.kind = "InsertText" -> KateModifiedInsertText_updateRedoSavedOnDiskFlag(item, lines)
      [] item.kind = "RemoveText" -> KateModifiedRemoveText_updateRedoSavedOnDiskFlag(item, lines)
      [] item.kind = "WrapLine"   -> KateModifiedWrapLine_updateRedoSavedOnDiskFlag(item, lines)
      [] item.kind = "UnWrapLine" -> KateModifiedUnWrapLine_updateRedoSavedOnDiskFlag(item, lines)
      [] item.kind = "InsertLine" -> KateModifiedInsertLine_updateRedoSavedOnDiskFlag(item, lines)
      [] item.kind = "RemoveLine" -> Updated(item, lines)

updateUndoSavedOnDiskFlag(item, lines) ==
    CASE item.kind = "InsertText" -> KateModifiedInsertText_updateUndoSavedOnDiskFlag(item, lines)
      [] item.kind = "RemoveText" -> KateModifiedRemoveText_updateUndoSavedOnDiskFlag(item, lines)
      [] item.kind = "WrapLine"   -> KateModifiedWrapLine_updateUndoSavedOnDiskFlag(item, lines)
      [] item.kind = "UnWrapLine" -> KateModifiedUnWrapLine_updateUndoSavedOnDiskFlag(item, lines)
      [] item.kind = "InsertLine" -> Updated(item, lines)
      [] item.kind = "RemoveLine" -> KateModifiedRemoveLine_updateUndoSavedOnDiskFlag(item, lines)

-----------------------------------------------------------------------------
(* The ledger *)

LineState(tl) == [modified |-> markedAsModified(tl), savedOnDisk |-> markedAsSavedOnDisk(tl)]

Clean == [modified |-> FALSE, savedOnDisk |-> FALSE]
Modified == [modified |-> TRUE, savedOnDisk |-> FALSE]
SavedOnDisk == [modified |-> FALSE, savedOnDisk |-> TRUE]

\* What the most recently constructed record went through since its
\* construction, as far as the scenarios studied below need it; every
\* other history is Other.  "save" before the first "undo" is a save while
\* the record is applied; "save" after "undo" is a save while the record is
\* undone and no record undone after it refers to its line.
Tracked ==
    {<<>>, <<"undo">>, <<"undo", "redo">>,
     <<"save">>, <<"save", "undo">>, <<"save", "undo", "redo">>,
     <<"undo", "save">>, <<"undo", "save", "redo">>, <<"undo", "save", "redo", "undo">>}

Other == <<"other">>

Step(h, event) == IF Append(h, event) \in Tracked THEN Append(h, event) ELSE Other

\* The most recently constructed record is the last applied one while no
\* record is undone, and the first undone one otherwise.
LastApplied == undoItems # <<>> /\ redoItems = <<>>

LastUndone == redoItems # <<>>

LastItem == IF redoItems = <<>> THEN undoItems[Len(undoItems)] ELSE redoItems[1]

\* The line indices a record refers to.
LinesOf(item) ==
    IF item.kind \in {"WrapLine", "UnWrapLine"} THEN {item.line, item.line + 1} ELSE {item.line}

\* No record of the list closer to the cursor than items[i] refers to line l.
MostRecentFor(items, i, l) ==
    \A j \in (i + 1)..Len(items) : l \notin LinesOf(items[j])

MostRecent(items, i) == MostRecentFor(items, i, items[i].line)

-----------------------------------------------------------------------------
(* Save: the lines are written, then the reconciliation pass runs over the *)
(* applied records (redo flags) and over the undone records (undo flags),  *)
(* each from the cursor outwards and each with its own marker array.       *)

RECURSIVE markRedoAsSavedOnDisk(_, _, _)
markRedoAsSavedOnDisk(items, i, lines) ==
    IF i = 0 THEN items
    ELSE LET u == updateRedoSavedOnDiskFlag(items[i], lines)
         IN markRedoAsSavedOnDisk([items EXCEPT ![i] = u.item], i - 1, u.lines)

RECURSIVE markUndoAsSavedOnDisk(_, _, _)
markUndoAsSavedOnDisk(items, i, lines) ==
    IF i = 0 THEN items
    ELSE LET u == updateUndoSavedOnDiskFlag(items[i], lines)
         IN markUndoAsSavedOnDisk([items EXCEPT ![i] = u.item], i - 1, u.lines)

\* Every modified line becomes saved on disk; disk records what was written.
markModifiedLinesAsSaved(document) ==
    [i \in 1..Len(document) |->
        LET tl == document[i]
            t2 == IF markedAsModified(tl)
                  THEN markAsSavedOnDisk(markAsModified(tl, FALSE), TRUE)
                  ELSE tl
        IN [t2 EXCEPT !.disk = tl.text]]

-----------------------------------------------------------------------------
(* Vi registers *)

BlackHoleRegister == "_"

SmallDeleteRegister == "-"

ZeroRegister == "0"

FirstNumberedRegister == "1"

LastNumberedRegister == "9"

SystemSelectionRegister == "*"

SystemClipboardRegister == "+"

UnnamedRegister == "\""

\* A default-constructed QChar.
NullChar == ""

\* The code point of a character a register is named by.
unicode(ch) ==
    CASE ch = NullChar -> 0
      [] ch = "\"" -> 34
      [] ch = "*" -> 42
      [] ch = "+" -> 43
      [] ch = "-" -> 45
      [] ch = "0" -> 48
      [] ch = "1" -> 49
      [] ch = "2" -> 50
      [] ch = "3" -> 51
      [] ch = "4" -> 52
      [] ch = "5" -> 53
      [] ch = "6" -> 54
      [] ch = "7" -> 55
      [] ch = "8" -> 56
      [] ch = "9" -> 57
      [] ch = "_" -> 95
      [] ch = "a" -> 97

\* QString(ch).toInt() of a digit.
toInt(ch) == unicode(ch) - 48

CharWise == "CharWise"

LineWise == "LineWise"

\* The cast of a stored integer to an OperationMode.
OperationMode(i) ==
    CASE i = 0 -> CharWise
      [] i = 1 -> LineWise
      [] i = 2 -> "Block"
      [] OTHER -> i

\* A register: its content and its flag.
Register(first, second) == [first |-> first, second |-> second]

\* A default-constructed Register.
NoRegister == Register(<<>>, CharWise)

NoRegisterMap == [k \in {} |-> NoRegister]

insert(map, key, value) ==
    [k \in DOMAIN map \cup {key} |-> IF k = key THEN value ELSE map[k]]

Registers(registers, numbered, default, clip) ==
    [m_registers |-> registers, m_numbered |-> numbered, m_default |-> default,
     clipboard |-> clip]

setNumberedRegister_NoDrop(numbered, text, flag) == <<Register(text, flag)>> \o numbered

setNumberedRegister(numbered, text, flag) ==
    LET kept == IF Len(numbered) = 9 THEN SubSeq(numbered, 1, Len(numbered) - 1) ELSE numbered
    IN <<Register(text, flag)>> \o kept

\* What set() does past the test for the black hole register.
store(r, reg, text, flag, append) ==
    IF unicode(reg) >= unicode(FirstNumberedRegister) /\ unicode(reg) <= unicode(LastNumberedRegister)
    THEN [r EXCEPT !.m_numbered = setNumberedRegister(@, text, CharWise)]
    ELSE IF reg = SystemClipboardRegister
    THEN [r EXCEPT !.clipboard.Clipboard = text]
    ELSE IF reg = SystemSelectionRegister
    THEN [r EXCEPT !.clipboard.Selection = text]
    ELSE IF append
    THEN LET old == IF reg \in DOMAIN r.m_registers THEN r.m_registers[reg] ELSE NoRegister
         IN [r EXCEPT !.m_registers = insert(@, reg, Register(old.first \o text, old.second))]
    ELSE [r EXCEPT !.m_registers = insert(@, reg, Register(text, flag))]

set_BlackHoleStored(r, reg, text, flag, append) ==
    LET r1 == store(r, reg, text, flag, append)
    IN IF reg \in {ZeroRegister, FirstNumberedRegister, SmallDeleteRegister}
       THEN [r1 EXCEPT !.m_default = reg]
       ELSE r1

set_AnyNumberedIsDefault(r, reg, text, flag, append) ==
    IF reg = BlackHoleRegister THEN r
    ELSE LET r1 == store(r, reg, text, flag, append)
         IN IF \/ reg \in {ZeroRegister, SmallDeleteRegister}
               \/ /\ unicode(reg) >= unicode(FirstNumberedRegister)
                  /\ unicode(reg) <= unicode(LastNumberedRegister)
            THEN [r1 EXCEPT !.m_default = reg]
            ELSE r1

set(r, reg, text, flag, append) ==
    IF reg = BlackHoleRegister THEN r
    ELSE LET r1 == store(r, reg, text, flag, append)
         IN IF reg \in {ZeroRegister, FirstNumberedRegister, SmallDeleteRegister}
            THEN [r1 EXCEPT !.m_default = reg]
            ELSE r1

getRegister(r, reg) ==
    LET l_reg == IF reg # UnnamedRegister THEN reg ELSE r.m_default
    IN IF /\ unicode(l_reg) >= unicode(FirstNumberedRegister)
          /\ unicode(l_reg) <= unicode(LastNumberedRegister)
       THEN LET index == toInt(l_reg) - 1
            IN IF Len(r.m_numbered) > index THEN r.m_numbered[index + 1] ELSE NoRegister
       ELSE IF l_reg = SystemClipboardRegister
       THEN Register(r.clipboard.Clipboard, CharWise)
       ELSE IF l_reg = SystemSelectionRegister
       THEN Register(r.clipboard.Selection, CharWise)
       ELSE IF l_reg \in DOMAIN r.m_registers THEN r.m_registers[l_reg] ELSE NoRegister

\* The loop of readConfig from entry i on (entries are counted from 1).
RECURSIVE readConfigLoop_StopsAtEmptyName(_, _, _, _, _)
readConfigLoop_StopsAtEmptyName(r, names, contents, flags, i) ==
    IF i > Len(names) THEN r
    ELSE IF names[i] # <<>>
    THEN readConfigLoop_StopsAtEmptyName(
             set(r, names[i][1], contents[i], OperationMode(flags[i]), FALSE),
             names, contents, flags, i + 1)
    ELSE r

RECURSIVE readConfigLoop(_, _, _, _, _)
readConfigLoop(r, names, contents, flags, i) ==
    IF i > Len(names) THEN r
    ELSE readConfigLoop(IF names[i] # <<>>
                        THEN set(r, names[i][1], contents[i], OperationMode(flags[i]), FALSE)
                        ELSE r,
                        names, contents, flags, i + 1)

readConfig(r, names, contents, flags) ==
    IF Len(names) # Len(contents) \/ Len(contents) # Len(flags) THEN r
    ELSE readConfigLoop(r, names, contents, flags, 1)

\* No call made yet on the registers.
NoRegisterCall ==
    [op |-> "none", reg |-> NullChar, text |-> <<>>, size |-> 0, recent |-> NullChar,
     names |-> <<>>, contents |-> <<>>, flags |-> <<>>]

\* The registers after construction.
NoRegisters ==
    /\ m_registers = NoRegisterMap
    /\ m_numbered = <<>>
    /\ m_default = NullChar
    /\ clipboard = [Clipboard |-> <<>>, Selection |-> <<>>]
    /\ rcall = NoRegisterCall

-----------------------------------------------------------------------------
(* Search line *)

\* QString::simplified from character i on: whitespace stripped at both
\* ends, each inner run of whitespace replaced by one space.
RECURSIVE simplifiedLoop(_, _, _)
simplifiedLoop(s, i, out) ==
    IF i > Len(s) THEN out
    ELSE simplifiedLoop(s, i + 1,
                        IF isSpace(s[i]) THEN out
                        ELSE IF out # <<>> /\ isSpace(s[i - 1]) THEN out \o <<" ", s[i]>>
                        ELSE Append(out, s[i]))

simplified(s) == simplifiedLoop(s, 1, <<>>)

\* QString::trimmed: whitespace stripped at both ends.
RECURSIVE trimmed(_)
trimmed(s) ==
    IF s = <<>> THEN s
    ELSE IF isSpace(s[1]) THEN trimmed(SubSeq(s, 2, Len(s)))
    ELSE IF isSpace(s[Len(s)]) THEN trimmed(SubSeq(s, 1, Len(s) - 1))
    ELSE s

\* The search line, with the texts updateSearch ran with so far in the
\* handler.
SearchLine(text, search, queuedSearches, autoScroll, pending, runs) ==
    [lineEdit |-> text, m_search |-> search, m_queuedSearches |-> queuedSearches,
     m_bSearchStateAutoScroll |-> autoScroll, timers |-> pending, runs |-> runs]

updateSearch(this, s) ==
    LET searchText == simplified(s)
        empty == searchText = <<>> \/ (Len(searchText) = 1 /\ isSpace(searchText[1]))
    IN [this EXCEPT !.m_bSearchStateAutoScroll = ~empty, !.runs = Append(@, s)]

k_activateSearch_NoReset(this) ==
    LET t1 == [this EXCEPT !.m_queuedSearches = @ - 1]
    IN IF t1.m_queuedSearches <= 0
       THEN updateSearch(t1, t1.m_search)
       ELSE t1

k_activateSearch(this) ==
    LET t1 == [this EXCEPT !.m_queuedSearches = @ - 1]
    IN IF t1.m_queuedSearches <= 0
       THEN [updateSearch(t1, t1.m_search) EXCEPT !.m_queuedSearches = 0]
       ELSE t1

k_queueSearch(this, s) ==
    LET t1 == [this EXCEPT !.m_queuedSearches = @ + 1, !.m_search = s]
    IN IF t1.m_search = <<>>
       THEN k_activateSearch(t1)
       ELSE [t1 EXCEPT !.timers = @ + 1]

\* The line edit sets its text and emits textChanged when the text differs.
setText(this, s) ==
    IF s = this.lineEdit THEN this
    ELSE k_queueSearch([this EXCEPT !.lineEdit = s], s)

clear(this) ==
    LET t1 == [this EXCEPT !.m_queuedSearches = 0,
                           !.m_bSearchStateAutoScroll = trimmed(this.lineEdit) # <<>>]
    IN setText(t1, <<>>)

NoSearchText == <<"none">>

\* No handler run yet on the search line.
NoSearchCall ==
    [op |-> "none", runs |-> <<>>, queued |-> NoSearchText, shown |-> NoSearchText,
     stale |-> FALSE]

\* The search line after construction.
NoSearch ==
    /\ lineEdit = <<>>
    /\ m_search = <<>>
    /\ m_queuedSearches = 0
    /\ m_bSearchStateAutoScroll = FALSE
    /\ timers = 0
    /\ scall = NoSearchCall

-----------------------------------------------------------------------------
(* Actions *)

\* No call made yet on the text line.
NoCall ==
    [op |-> "none", column |-> 0, tabWidth |-> 0, match |-> <<>>, result |-> 0, back |-> 0,
     reads |-> {}]

Init ==
    /\ \E texts \in InitDocs :
         doc = [i \in 1..Len(texts) |-> TextLine(texts[i], FALSE, FALSE, texts[i])]
    /\ undoItems = <<>>
    /\ redoItems = <<>>
    /\ edits = 0
    /\ pre = [l1 |-> Clean, l2 |-> Clean]
    /\ hist = <<>>
    /\ lastOp = "init"
    /\ preUndo = <<>>
    /\ m_text = <<>>
    /\ m_attributesList = <<>>
    /\ call = NoCall
    /\ NoRegisters
    /\ NoSearch

\* An edit: the record is constructed from the current lines, the edit is
\* applied, the record becomes the last applied one and the undone records
\* are dropped.
AddUndoItem(item, pre1, pre2) ==
    /\ edits < MaxEdits
    /\ edits' = edits + 1
    /\ doc' = redo(doc, item)
    /\ undoItems' = Append(undoItems, item)
    /\ redoItems' = <<>>
    /\ lastOp' = "edit"
    /\ pre' = [l1 |-> pre1, l2 |-> pre2]
    /\ hist' = <<>>
    /\ preUndo' = <<>>
    /\ UNCHANGED <<lineVars, registerVars, searchVars>>

EditInsertText ==
    \E line \in 0..(Len(doc) - 1) :
      \E col \in {length(doc[line + 1])} :
        \E s \in InsertTexts :
          AddUndoItem(KateModifiedInsertText(doc, line, col, s), LineState(doc[line + 1]), Clean)

EditRemoveText ==
    \E line \in 0..(Len(doc) - 1) :
      \E col \in {0} \cap 0..(length(doc[line + 1]) - 1) :
        \E len \in {1} :
          AddUndoItem(KateModifiedRemoveText(doc, line, col, SubSeq(doc[line + 1].text, col + 1, col + len)),
                      LineState(doc[line + 1]), Clean)

EditWrapLine ==
    /\ \E line \in 0..(Len(doc) - 1) :
         \E col \in 0..length(doc[line + 1]) :
           AddUndoItem(KateModifiedWrapLine(doc, line, col, length(doc[line + 1]) - col),
                       LineState(doc[line + 1]), Clean)

EditUnWrapLine ==
    \E line \in 0..(Len(doc) - 2) :
      /\ AddUndoItem(KateModifiedUnWrapLine(doc, line, length(doc[line + 1]), length(doc[line + 2])),
                     LineState(doc[line + 1]), LineState(doc[line + 2]))

EditInsertLine ==
    /\ \E line \in 0..Len(doc) :
         \E s \in InsertLineTexts :
           AddUndoItem(KateModifiedInsertLine(line, s), Clean, Clean)

EditRemoveLine ==
    /\ Len(doc) > 1
    /\ \E line \in 0..(Len(doc) - 1) :
         AddUndoItem(KateModifiedRemoveLine(doc, line, doc[line + 1].text), LineState(doc[line + 1]), Clean)

Undo ==
    /\ undoItems # <<>>
    /\ LET item == undoItems[Len(undoItems)]
       IN /\ doc' = undo(doc, item)
          /\ undoItems' = SubSeq(undoItems, 1, Len(undoItems) - 1)
          /\ redoItems' = Append(redoItems, item)
    /\ lastOp' = "undo"
    /\ hist' = IF redoItems = <<>> THEN Step(hist, "undo") ELSE hist
    /\ preUndo' = [i \in 1..Len(doc) |-> LineState(doc[i])]
    /\ UNCHANGED <<edits, pre>>
    /\ UNCHANGED <<lineVars, registerVars, searchVars>>

Redo ==
    /\ redoItems # <<>>
    /\ LET item == redoItems[Len(redoItems)]
       IN /\ doc' = redo(doc, item)
          /\ redoItems' = SubSeq(redoItems, 1, Len(redoItems) - 1)
          /\ undoItems' = Append(undoItems, item)
    /\ lastOp' = "redo"
    /\ hist' = IF Len(redoItems) = 1 THEN Step(hist, "redo") ELSE hist
    /\ preUndo' = <<>>
    /\ UNCHANGED <<edits, pre>>
    /\ UNCHANGED <<lineVars, registerVars, searchVars>>

Save ==
    /\ doc' = markModifiedLinesAsSaved(doc)
    /\ undoItems' = markRedoAsSavedOnDisk(undoItems, Len(undoItems), <<>>)
    /\ redoItems' = markUndoAsSavedOnDisk(redoItems, Len(redoItems), <<>>)
    /\ lastOp' = "save"
    /\ hist' = IF LastApplied THEN Step(hist, "save")
                ELSE IF LastUndone
                     THEN (IF MostRecent(redoItems, 1) THEN Step(hist, "save") ELSE Other)
                     ELSE hist
    /\ preUndo' = <<>>
    /\ UNCHANGED <<edits, pre>>
    /\ UNCHANGED <<lineVars, registerVars, searchVars>>

Next ==
    \/ EditInsertText
    \/ EditRemoveText
    \/ EditWrapLine
    \/ EditUnWrapLine
    \/ EditInsertLine
    \/ EditRemoveLine
    \/ Undo
    \/ Redo
    \/ Save

Spec == Init /\ [][Next]_vars

-----------------------------------------------------------------------------
(* The text line on its own.  Its text and its attribute runs are          *)
(* independent of each other (no operation reads both), so each is studied *)
(* in a specification of its own: SpecLine is a line of some text on which *)
(* the column conversions are made, SpecRuns a line on which runs are      *)
(* added in the order the callers keep (non-decreasing offsets, no         *)
(* overlap) and looked up.                                                 *)

\* No ledger: the document the line belongs to is left out.
NoLedger ==
    /\ doc = <<>>
    /\ undoItems = <<>>
    /\ redoItems = <<>>
    /\ edits = 0
    /\ pre = [l1 |-> Clean, l2 |-> Clean]
    /\ hist = <<>>
    /\ lastOp = "init"
    /\ preUndo = <<>>

InitLine ==
    /\ m_text \in Texts
    /\ m_attributesList = <<>>
    /\ call = NoCall
    /\ NoRegisters
    /\ NoSearch
    /\ NoLedger

InitRuns ==
    /\ m_text = <<>>
    /\ m_attributesList = <<>>
    /\ call = NoCall
    /\ NoRegisters
    /\ NoSearch
    /\ NoLedger

\* The end of the last run: where the next run may start.
EndOfRuns ==
    IF m_attributesList = <<>> THEN 0
    ELSE m_attributesList[Len(m_attributesList)].offset + m_attributesList[Len(m_attributesList)].length

AddAttribute ==
    /\ \E offset \in EndOfRuns..MaxOffset :
         \E len \in AttributeLengths :
           \E attributeValue \in AttributeValues :
             /\ offset + len <= MaxOffset
             /\ m_attributesList' = addAttribute(m_attributesList, Attribute(offset, len, attributeValue))
    /\ call' = [NoCall EXCEPT !.op = "addAttribute"]
    /\ UNCHANGED <<m_text, ledgerVars, registerVars, searchVars>>

LookupAttribute ==
    /\ \E pos \in Positions :
         call' = [NoCall EXCEPT !.op = "attribute", !.column = pos,
                                !.result = attribute(m_attributesList, pos)]
    /\ UNCHANGED <<m_text, m_attributesList, ledgerVars, registerVars, searchVars>>

\* fromVirtualColumn of a column, and toVirtualColumn of its result.
ConvertColumn ==
    /\ \E column \in Columns :
         \E tabWidth \in TabWidths :
           LET c == fromVirtualColumn(m_text, column, tabWidth)
           IN call' = [NoCall EXCEPT !.op = "fromVirtualColumn", !.column = column,
                                     !.tabWidth = tabWidth, !.result = c,
                                     !.back = toVirtualColumn(m_text, c, tabWidth)]
    /\ UNCHANGED <<m_text, m_attributesList, ledgerVars, registerVars, searchVars>>

\* toVirtualColumn of a character column, and fromVirtualColumn of its result.
ConvertBack ==
    /\ \E column \in Columns :
         \E tabWidth \in TabWidths :
           LET v == toVirtualColumn(m_text, column, tabWidth)
           IN call' = [NoCall EXCEPT !.op = "toAndFromVirtualColumn", !.column = column,
                                     !.tabWidth = tabWidth, !.result = v,
                                     !.back = fromVirtualColumn(m_text, v, tabWidth)]
    /\ UNCHANGED <<m_text, m_attributesList, ledgerVars, registerVars, searchVars>>

ToVirtualColumn ==
    /\ \E column \in Columns :
         \E tabWidth \in TabWidths :
           call' = [NoCall EXCEPT !.op = "toVirtualColumn", !.column = column, !.tabWidth = tabWidth,
                                  !.result = toVirtualColumn(m_text, column, tabWidth)]
    /\ UNCHANGED <<m_text, m_attributesList, ledgerVars, registerVars, searchVars>>

VirtualLength ==
    /\ \E tabWidth \in TabWidths :
         call' = [NoCall EXCEPT !.op = "virtualLength", !.tabWidth = tabWidth,
                                !.result = virtualLength(m_text, tabWidth)]
    /\ UNCHANGED <<m_text, m_attributesList, ledgerVars, registerVars, searchVars>>

FirstChar ==
    /\ call' = [NoCall EXCEPT !.op = "firstChar", !.result = firstChar(m_text)]
    /\ UNCHANGED <<m_text, m_attributesList, ledgerVars, registerVars, searchVars>>

LastChar ==
    /\ call' = [NoCall EXCEPT !.op = "lastChar", !.result = lastChar(m_text)]
    /\ UNCHANGED <<m_text, m_attributesList, ledgerVars, registerVars, searchVars>>

\* nextNonSpaceChar is called with pos >= 0 only.
NextNonSpaceChar ==
    /\ \E pos \in Indices :
         /\ pos >= 0
         /\ call' = [NoCall EXCEPT !.op = "nextNonSpaceChar", !.column = pos,
                                   !.result = nextNonSpaceChar(m_text, pos)]
    /\ UNCHANGED <<m_text, m_attributesList, ledgerVars, registerVars, searchVars>>

PreviousNonSpaceChar ==
    /\ \E pos \in Indices :
         call' = [NoCall EXCEPT !.op = "previousNonSpaceChar", !.column = pos,
                                !.result = previousNonSpaceChar(m_text, pos)]
    /\ UNCHANGED <<m_text, m_attributesList, ledgerVars, registerVars, searchVars>>

MatchesAt ==
    /\ \E column \in Indices :
         \E match \in Patterns :
           LET m == matchesAt(m_text, column, match)
           IN call' = [NoCall EXCEPT !.op = "matchesAt", !.column = column, !.match = match,
                                     !.result = m.result, !.reads = m.reads]
    /\ UNCHANGED <<m_text, m_attributesList, ledgerVars, registerVars, searchVars>>

IndentDepth ==
    /\ \E tabWidth \in TabWidths :
         call' = [NoCall EXCEPT !.op = "indentDepth", !.tabWidth = tabWidth,
                                !.result = indentDepth(m_text, tabWidth)]
    /\ UNCHANGED <<m_text, m_attributesList, ledgerVars, registerVars, searchVars>>

NextLine ==
    \/ ConvertColumn
    \/ ConvertBack
    \/ ToVirtualColumn
    \/ VirtualLength
    \/ FirstChar
    \/ LastChar
    \/ NextNonSpaceChar
    \/ PreviousNonSpaceChar
    \/ MatchesAt
    \/ IndentDepth

SpecLine == InitLine /\ [][NextLine]_vars

NextRuns ==
    \/ AddAttribute
    \/ LookupAttribute

SpecRuns == InitRuns /\ [][NextRuns]_vars

-----------------------------------------------------------------------------
(* Vi registers: actions *)

NoLine ==
    /\ m_text = <<>>
    /\ m_attributesList = <<>>
    /\ call = NoCall

thisRegisters == Registers(m_registers, m_numbered, m_default, clipboard)

DefaultRegisters == {ZeroRegister, FirstNumberedRegister, SmallDeleteRegister}

\* The register most recently set among DefaultRegisters once the entries
\* of a configuration from entry i on are read.
RECURSIVE RecentAfter(_, _, _)
RecentAfter(recent, names, i) ==
    IF i > Len(names) THEN recent
    ELSE RecentAfter(IF names[i] # <<>> /\ names[i][1] \in DefaultRegisters
                     THEN names[i][1] ELSE recent,
                     names, i + 1)

\* set() called with a register, a text, a flag and an append value of the
\* given sets.
Set(regs, texts, flags, appends) ==
    /\ \E reg \in regs, text \in texts, flag \in flags, append \in appends :
         /\ append => Len(getRegister(thisRegisters, reg).first) + Len(text) <= MaxContentLen
         /\ LET r == set(thisRegisters, reg, text, flag, append)
            IN /\ m_registers' = r.m_registers
               /\ m_numbered' = r.m_numbered
               /\ m_default' = r.m_default
               /\ clipboard' = r.clipboard
         /\ rcall' = [NoRegisterCall EXCEPT !.op = "set", !.reg = reg, !.text = text,
                                            !.size = Len(m_numbered),
                                            !.recent = IF reg \in DefaultRegisters
                                                       THEN reg ELSE rcall.recent]
    /\ UNCHANGED <<ledgerVars, lineVars, searchVars>>

KillRingTexts == {<<"x">>, <<"y">>}

\* set() on the first or the last numbered register, with one of two texts.
SetNumbered ==
    Set({FirstNumberedRegister, LastNumberedRegister}, KillRingTexts, {LineWise}, {FALSE})

\* set() on the zero or the small-delete register.
SetNamed == Set({ZeroRegister, SmallDeleteRegister}, {<<"z">>}, {LineWise}, {FALSE})

\* set() on the black hole register, with every flag and append value.
SetBlackHole == Set({BlackHoleRegister}, KillRingTexts, {CharWise, LineWise}, BOOLEAN)

InitKillRing ==
    /\ NoRegisters
    /\ NoSearch
    /\ NoLine
    /\ NoLedger

NextKillRing ==
    \/ SetNumbered
    \/ SetNamed
    \/ SetBlackHole

SpecKillRing == InitKillRing /\ [][NextKillRing]_vars

RegisterNames == {BlackHoleRegister, "a", SystemClipboardRegister, SystemSelectionRegister}

RegisterTexts == {<<"x">>}

\* set() as the named registers see it: one text, appended or not.
SetRegister == Set(RegisterNames, RegisterTexts, {CharWise, LineWise}, BOOLEAN)

ConfigNames == {<<>>, <<"a">>, <<"_", "a">>}

\* The stored integer of LineWise.
ConfigFlags == {1}

ListsOf(values) == UNION {[1..n -> values] : n \in 0..MaxEntries}

ReadConfig ==
    /\ \E names \in ListsOf(ConfigNames), contents \in ListsOf(RegisterTexts),
          flags \in ListsOf(ConfigFlags) :
         /\ LET r == readConfig(thisRegisters, names, contents, flags)
            IN /\ m_registers' = r.m_registers
               /\ m_numbered' = r.m_numbered
               /\ m_default' = r.m_default
               /\ clipboard' = r.clipboard
         /\ rcall' = [NoRegisterCall EXCEPT
                         !.op = "readConfig", !.size = Len(m_numbered),
                         !.names = names, !.contents = contents, !.flags = flags,
                         !.recent = IF Len(names) = Len(contents) /\ Len(contents) = Len(flags)
                                    THEN RecentAfter(rcall.recent, names, 1)
                                    ELSE rcall.recent]
    /\ UNCHANGED <<ledgerVars, lineVars, searchVars>>

InitRegisters ==
    /\ NoRegisters
    /\ NoSearch
    /\ NoLine
    /\ NoLedger

NextRegisters ==
    \/ SetRegister
    \/ ReadConfig

SpecRegisters == InitRegisters /\ [][NextRegisters]_vars

-----------------------------------------------------------------------------
(* Search line: actions *)

SearchChars == {"a", " "}

SearchTexts == UNION {[1..n -> SearchChars] : n \in 0..MaxSearchLen}

thisSearchLine ==
    SearchLine(lineEdit, m_search, m_queuedSearches, m_bSearchStateAutoScroll, timers, <<>>)

\* The search line and the history after a handler that left it as this.
Ran(op, this) ==
    /\ lineEdit' = this.lineEdit
    /\ m_search' = this.m_search
    /\ m_queuedSearches' = this.m_queuedSearches
    /\ m_bSearchStateAutoScroll' = this.m_bSearchStateAutoScroll
    /\ timers' = this.timers
    /\ scall' = [op |-> op,
                 runs |-> this.runs,
                 queued |-> IF this.lineEdit # lineEdit THEN this.lineEdit ELSE scall.queued,
                 shown |-> IF this.runs # <<>> THEN this.runs[Len(this.runs)] ELSE scall.shown,
                 stale |-> IF this.runs # <<>> THEN FALSE
                           ELSE scall.stale \/ this.lineEdit # lineEdit]
    /\ UNCHANGED <<ledgerVars, lineVars, registerVars>>

\* The text of the line edit is changed by editing.
TextChanged ==
    \E s \in SearchTexts :
        /\ s # lineEdit
        /\ s # <<>> => timers < MaxTimers
        /\ Ran("textChanged", setText(thisSearchLine, s))

Clear == Ran("clear", clear(thisSearchLine))

\* A pending timer fires.
Timeout ==
    /\ timers > 0
    /\ Ran("timeout", k_activateSearch([thisSearchLine EXCEPT !.timers = @ - 1]))

InitSearch ==
    /\ NoSearch
    /\ NoRegisters
    /\ NoLine
    /\ NoLedger

NextSearch ==
    \/ TextChanged
    \/ Clear
    \/ Timeout

SpecSearch == InitSearch /\ [][NextSearch]_vars



-----------------------------------------------------------------------------
(* Vocabulary of the properties *)

Slot(line, m, s) == [line |-> line, m |-> m, s |-> s]

\* The (line, flag pair) slots redo() of a record marks, and those undo() marks.
RedoSlots(item) ==
    CASE item.kind \in {"InsertText", "RemoveText", "InsertLine", "UnWrapLine"} ->
            {Slot(item.line, "RedoLine1Modified", "RedoLine1Saved")}
      [] item.kind = "WrapLine" ->
            {Slot(item.line, "RedoLine1Modified", "RedoLine1Saved"),
             Slot(item.line + 1, "RedoLine2Modified", "RedoLine2Saved")}
      [] item.kind = "RemoveLine" -> {}

UndoSlots(item) ==
    CASE item.kind \in {"InsertText", "RemoveText", "RemoveLine", "WrapLine"} ->
            {Slot(item.line, "UndoLine1Modified", "UndoLine1Saved")}
      [] item.kind = "UnWrapLine" ->
            {Slot(item.line, "UndoLine1Modified", "UndoLine1Saved"),
             Slot(item.line + 1, "UndoLine2Modified", "UndoLine2Saved")}
      [] item.kind = "InsertLine" -> {}

NoFlag(item, slot) == slot.m \notin item.flags /\ slot.s \notin item.flags

\* The record's flag of the slot was rewritten from Modified to Saved.
Rewritten(old, new, slot) ==
    isFlagSet(old.flags, slot.m) /\ isFlagSet(new.flags, slot.s) /\ ~isFlagSet(new.flags, slot.m)

StateAt(line) == LineState(doc[line + 1])

SingleLine(item) == item.kind \in {"InsertText", "RemoveText"}

\* The last operation was the undo (redo) of the most recently constructed record.
LastItemJustUndone == lastOp = "undo" /\ Len(redoItems) = 1

LastItemJustRedone == lastOp = "redo" /\ undoItems # <<>> /\ redoItems = <<>>

RedoFlags == {"RedoLine1Modified", "RedoLine1Saved", "RedoLine2Modified", "RedoLine2Saved"}

UndoFlags == {"UndoLine1Modified", "UndoLine1Saved", "UndoLine2Modified", "UndoLine2Saved"}

\* The line state a flag pair stands for: what undo()/redo() marks with it.
Recorded(item, slot) ==
    [modified |-> isFlagSet(item.flags, slot.m), savedOnDisk |-> isFlagSet(item.flags, slot.s)]

\* new is old except possibly for flags outside keep.
Frame(old, new, keep) ==
    /\ new.kind = old.kind /\ new.line = old.line /\ new.col = old.col
    /\ new.text = old.text /\ new.len = old.len
    /\ new.flags \cap keep = old.flags \cap keep

\* The record a step constructs, undoes or redoes.
StepItem ==
    CASE lastOp' = "edit" -> undoItems'[Len(undoItems')]
      [] lastOp' = "undo" -> undoItems[Len(undoItems)]
      [] lastOp' = "redo" -> redoItems[Len(redoItems)]

\* The (1-based) indices at which a step leaves the same line in place: all
\* of them for a save; up to the record's own line for the edits in a line
\* and for the split and join; those before it for a line insertion or removal.
SameLines ==
    IF lastOp' = "save" THEN 1..Len(doc)
    ELSE IF StepItem.kind \in {"InsertLine", "RemoveLine"} THEN 1..StepItem.line
    ELSE 1..(StepItem.line + 1)

\* The line states of the document.
LineStates(document) == [i \in 1..Len(document) |-> LineState(document[i])]

-----------------------------------------------------------------------------
(* Properties *)

\* C1: every line whose content differs from the content last written to
\* disk has its modified flag set.  Checked for the lines that have an
\* on-disk content of their own, i.e. that were only edited in place since
\* the last save.
C1_ModifiedWhenContentDiffers ==
    \A i \in 1..Len(doc) :
        (doc[i].disk # NoDisk /\ doc[i].text # doc[i].disk) => markedAsModified(doc[i])

\* C2: an InsertText record constructed on a line not marked modified:
\* undoing it (first thing after its construction, no save in between)
\* leaves the line savedOnDisk and not modified; redoing it then leaves
\* the line modified and not savedOnDisk.
C2_InsertTextRoundTrip ==
    /\ (LastItemJustUndone /\ hist = <<"undo">> /\ LastItem.kind = "InsertText"
            /\ ~pre.l1.modified)
         => StateAt(LastItem.line) = SavedOnDisk
    /\ (LastItemJustRedone /\ hist = <<"undo", "redo">> /\ LastItem.kind = "InsertText"
            /\ ~pre.l1.modified)
         => StateAt(LastItem.line) = Modified

C2_Witness ==
    /\ LastItemJustRedone /\ hist = <<"undo", "redo">>
    /\ LastItem.kind = "InsertText" /\ pre.l1 = Clean
    /\ StateAt(LastItem.line) = Modified

\* C3: a save while a single-line record is the most recent applied record
\* for its line rewrites its RedoLine1Modified to RedoLine1Saved; if the
\* record was constructed on a Modified line, the undo that follows marks
\* the line Modified and the redo that follows marks it SavedOnDisk.
C3_SaveThenUndoRedo ==
    /\ lastOp = "save" =>
         \A i \in 1..Len(undoItems) :
            (SingleLine(undoItems[i]) /\ MostRecent(undoItems, i))
              => /\ isFlagSet(undoItems[i].flags, "RedoLine1Saved")
                 /\ ~isFlagSet(undoItems[i].flags, "RedoLine1Modified")
    /\ (LastItemJustUndone /\ hist = <<"save", "undo">> /\ SingleLine(LastItem)
            /\ pre.l1 = Modified)
         => StateAt(LastItem.line) = Modified
    /\ (LastItemJustRedone /\ hist = <<"save", "undo", "redo">> /\ SingleLine(LastItem)
            /\ pre.l1 = Modified)
         => StateAt(LastItem.line) = SavedOnDisk

C3_Witness ==
    /\ LastItemJustRedone /\ hist = <<"save", "undo", "redo">>
    /\ SingleLine(LastItem) /\ pre.l1 = Modified
    /\ StateAt(LastItem.line) = SavedOnDisk

\* C4: a second reconciliation pass right after a first one (save, save,
\* nothing in between) changes no flag of any record.
C4_SecondPassChangesNothing ==
    [][(lastOp = "save" /\ lastOp' = "save")
         => (undoItems' = undoItems /\ redoItems' = redoItems)]_vars

\* C5: after a save, of the applied records with a redo slot for the same
\* line index only the most recent one carries the redo Saved flag for it.
C5_OnlyMostRecentCarriesSaved ==
    lastOp = "save" =>
      \A i \in 1..Len(undoItems) : \A j \in (i + 1)..Len(undoItems) :
        \A si \in RedoSlots(undoItems[i]) : \A sj \in RedoSlots(undoItems[j]) :
          si.line = sj.line => ~isFlagSet(undoItems[i].flags, si.s)

\* C6: in one reconciliation pass, for every line index at most one record
\* has a flag for that line rewritten from Modified to Saved.
C6_AtMostOneRewritePerLine ==
    [][lastOp' = "save" =>
         /\ \A l \in UNION {LinesOf(undoItems[i]) : i \in 1..Len(undoItems)} :
              Cardinality({i \in 1..Len(undoItems) :
                  \E slot \in RedoSlots(undoItems[i]) :
                      slot.line = l /\ Rewritten(undoItems[i], undoItems'[i], slot)}) <= 1
         /\ \A l \in UNION {LinesOf(redoItems[i]) : i \in 1..Len(redoItems)} :
              Cardinality({i \in 1..Len(redoItems) :
                  \E slot \in UndoSlots(redoItems[i]) :
                      slot.line = l /\ Rewritten(redoItems[i], redoItems'[i], slot)}) <= 1]_vars

\* After a save: a WrapLine whose second line took the marker of index
\* line + 1, and an older single-line record at that index left Modified.
C6_Witness ==
    /\ lastOp = "save"
    /\ \E i \in 1..Len(undoItems) : \E j \in (i + 1)..Len(undoItems) :
         /\ undoItems[j].kind = "WrapLine"
         /\ isFlagSet(undoItems[j].flags, "RedoLine2Saved")
         /\ SingleLine(undoItems[i])
         /\ undoItems[i].line = undoItems[j].line + 1
         /\ isFlagSet(undoItems[i].flags, "RedoLine1Modified")

\* C7: in every record of the ledger, each of the four (line slot,
\* direction) pairs has at most one of its Modified and Saved flags set.
C7_AtMostOneFlagPerPair ==
    \A items \in {undoItems, redoItems} : \A i \in 1..Len(items) :
        /\ ~(isFlagSet(items[i].flags, "RedoLine1Modified") /\ isFlagSet(items[i].flags, "RedoLine1Saved"))
        /\ ~(isFlagSet(items[i].flags, "RedoLine2Modified") /\ isFlagSet(items[i].flags, "RedoLine2Saved"))
        /\ ~(isFlagSet(items[i].flags, "UndoLine1Modified") /\ isFlagSet(items[i].flags, "UndoLine1Saved"))
        /\ ~(isFlagSet(items[i].flags, "UndoLine2Modified") /\ isFlagSet(items[i].flags, "UndoLine2Saved"))

\* An undone RemoveText record, constructed on a Modified line, whose undo
\* flag the pass over the undone records has rewritten to Saved.
C7_Witness ==
    /\ lastOp = "save" /\ LastUndone
    /\ LastItem.kind = "RemoveText" /\ pre.l1 = Modified
    /\ isFlagSet(LastItem.flags, "UndoLine1Saved")

\* C8: an InsertText or RemoveText record is constructed with
\* RedoLine1Modified, with UndoLine1Modified if the line is marked modified
\* at that time and with UndoLine1Saved otherwise, and with no other flag.
C8_SingleLineConstruction ==
    (LastApplied /\ hist = <<>> /\ SingleLine(LastItem)) =>
        LastItem.flags = {"RedoLine1Modified",
                          IF pre.l1.modified THEN "UndoLine1Modified" ELSE "UndoLine1Saved"}

C8_Witness ==
    /\ LastApplied /\ hist = <<>> /\ lastOp = "edit"
    /\ LastItem.kind = "RemoveText" /\ pre.l1 = Clean
    /\ isFlagSet(LastItem.flags, "UndoLine1Saved")

C10_WrapBothHalvesModified ==
    /\ (LastApplied /\ hist = <<>> /\ LastItem.kind = "WrapLine"
            /\ LastItem.col > 0 /\ LastItem.len > 0)
         => /\ isFlagSet(LastItem.flags, "RedoLine1Modified")
            /\ isFlagSet(LastItem.flags, "RedoLine2Modified")
    /\ (LastItemJustRedone /\ hist = <<"undo", "redo">> /\ LastItem.kind = "WrapLine"
            /\ LastItem.col > 0 /\ LastItem.len > 0)
         => /\ StateAt(LastItem.line) = Modified
            /\ StateAt(LastItem.line + 1) = Modified

C10_Witness ==
    /\ LastItemJustRedone /\ hist = <<"undo", "redo">>
    /\ LastItem.kind = "WrapLine" /\ LastItem.col > 0 /\ LastItem.len > 0
    /\ pre.l1 = Clean
    /\ StateAt(LastItem.line) = Modified /\ StateAt(LastItem.line + 1) = Modified

\* C11 as stated: undoing a WrapLine record (first thing after its
\* construction, no save in between) leaves the re-joined line with exactly
\* the modified/savedOnDisk flags the line had when the record was
\* constructed, for every col and len.
C11_WrapUndoRestoresExactly ==
    (LastItemJustUndone /\ hist = <<"undo">> /\ LastItem.kind = "WrapLine")
        => StateAt(LastItem.line) = pre.l1

\* C11 as amended: the undo restores Modified and SavedOnDisk exactly; a
\* Clean line is Clean again when one half of the split was empty and is
\* SavedOnDisk when both halves were nonempty.
C11_WrapUndoRestoresOrSaved ==
    (LastItemJustUndone /\ hist = <<"undo">> /\ LastItem.kind = "WrapLine")
        => StateAt(LastItem.line) =
             IF pre.l1 = Clean /\ LastItem.col > 0 /\ LastItem.len > 0 THEN SavedOnDisk ELSE pre.l1

C11_Witness ==
    /\ LastItemJustUndone /\ hist = <<"undo">>
    /\ LastItem.kind = "WrapLine" /\ LastItem.col > 0 /\ LastItem.len > 0
    /\ pre.l1 = Clean
    /\ StateAt(LastItem.line) = SavedOnDisk

\* C12: an UnWrapLine record joining two lines of which exactly one is
\* empty is constructed with the redo state of the merged line equal to
\* the state the nonempty line had: RedoLine1Modified for Modified,
\* RedoLine1Saved for SavedOnDisk, no flag for Clean.  (col is the length
\* of the first line, len that of the second.)
C12_UnWrapRedoFromNonemptyLine ==
    (LastApplied /\ hist = <<>> /\ LastItem.kind = "UnWrapLine"
        /\ ((LastItem.col = 0) # (LastItem.len = 0)))
      => Recorded(LastItem, Slot(LastItem.line, "RedoLine1Modified", "RedoLine1Saved"))
           = IF LastItem.col = 0 THEN pre.l2 ELSE pre.l1

\* C13: a RemoveLine record is constructed with UndoLine1Modified if the
\* line was Modified, with UndoLine1Saved if it was SavedOnDisk, and with
\* no redo flag; undoing the removal of a line that was SavedOnDisk gives
\* a line with savedOnDisk set and modified clear.
C13_RemoveLineMirrorsState ==
    /\ (LastApplied /\ hist = <<>> /\ LastItem.kind = "RemoveLine")
         => /\ pre.l1 = Modified => isFlagSet(LastItem.flags, "UndoLine1Modified")
            /\ pre.l1 = SavedOnDisk => isFlagSet(LastItem.flags, "UndoLine1Saved")
            /\ LastItem.flags \cap RedoFlags = {}
    /\ (LastItemJustUndone /\ LastItem.kind = "RemoveLine" /\ pre.l1 = SavedOnDisk)
         => StateAt(LastItem.line) = SavedOnDisk

C13_Witness ==
    /\ LastItemJustUndone /\ LastItem.kind = "RemoveLine" /\ pre.l1 = SavedOnDisk
    /\ StateAt(LastItem.line) = SavedOnDisk

\* C14: an InsertLine record is constructed with RedoLine1Modified and no
\* other flag; its redo marks the inserted line Modified while the record
\* carries RedoLine1Modified and SavedOnDisk once a pass has rewritten it;
\* its undo leaves the flags of every remaining line as they were.
C14_InsertLineFlags ==
    [][/\ (lastOp' = "edit" /\ StepItem.kind = "InsertLine")
            => /\ StepItem.flags = {"RedoLine1Modified"}
               /\ LineState(doc'[StepItem.line + 1]) = Modified
       /\ (lastOp' = "redo" /\ StepItem.kind = "InsertLine")
            => /\ isFlagSet(StepItem.flags, "RedoLine1Modified")
                    => LineState(doc'[StepItem.line + 1]) = Modified
               /\ ~isFlagSet(StepItem.flags, "RedoLine1Modified")
                    => /\ isFlagSet(StepItem.flags, "RedoLine1Saved")
                       /\ LineState(doc'[StepItem.line + 1]) = SavedOnDisk
       /\ (lastOp' = "undo" /\ StepItem.kind = "InsertLine")
            => LineStates(doc') = LineStates(editRemoveLine(doc, StepItem.line))]_vars

\* An InsertLine record redone after a save rewrote its flag, with other
\* lines in the document.
C14_Witness ==
    /\ LastItemJustRedone /\ hist = <<"save", "undo", "redo">>
    /\ LastItem.kind = "InsertLine"
    /\ StateAt(LastItem.line) = SavedOnDisk
    /\ Len(doc) > 1

\* C15: a line that is Modified or SavedOnDisk is never Clean after a
\* further edit, undo, redo or save.
C15_NeverBackToClean ==
    [][\A i \in SameLines :
          (i <= Len(doc) /\ i <= Len(doc') /\ LineState(doc[i]) # Clean)
            => LineState(doc'[i]) # Clean]_vars

\* C16: a save while a single-line record is undone and is the most
\* recently undone record for its line leaves the record with
\* UndoLine1Saved and without UndoLine1Modified; the redo flag of a record
\* so reconciled right after its undo is still the RedoLine1Modified it
\* was constructed with; the redo that follows marks the line Modified and
\* the undo after that marks it SavedOnDisk.
C16_UndoneThenSaved ==
    /\ lastOp = "save" =>
         \A i \in 1..Len(redoItems) :
            (SingleLine(redoItems[i]) /\ MostRecent(redoItems, i))
              => /\ isFlagSet(redoItems[i].flags, "UndoLine1Saved")
                 /\ ~isFlagSet(redoItems[i].flags, "UndoLine1Modified")
    /\ (hist = <<"undo", "save">> /\ SingleLine(LastItem))
         => LastItem.flags \cap RedoFlags = {"RedoLine1Modified"}
    /\ (LastItemJustRedone /\ hist = <<"undo", "save", "redo">> /\ SingleLine(LastItem))
         => StateAt(LastItem.line) = Modified
    /\ (LastItemJustUndone /\ hist = <<"undo", "save", "redo", "undo">> /\ SingleLine(LastItem))
         => StateAt(LastItem.line) = SavedOnDisk

\* The record was constructed on a Modified line, so its undo flag was
\* rewritten by the save, while an applied record for the same line index
\* took the marker of that index in the pass over the applied records.
C16_Witness ==
    /\ LastItemJustUndone /\ hist = <<"undo", "save", "redo", "undo">>
    /\ SingleLine(LastItem) /\ pre.l1 = Modified
    /\ StateAt(LastItem.line) = SavedOnDisk
    /\ \E i \in 1..Len(undoItems) :
         /\ SingleLine(undoItems[i]) /\ undoItems[i].line = LastItem.line
         /\ isFlagSet(undoItems[i].flags, "RedoLine1Saved")

\* C17: the pass over the applied records changes nothing of a record but
\* its Redo* flags, the pass over the undone records nothing but its
\* Undo* flags, and the flags of the lines after a save are those the
\* writing of the lines alone gives.
C17_PassChangesOnlyItsDirection ==
    [][lastOp' = "save" =>
         /\ Len(undoItems') = Len(undoItems)
         /\ Len(redoItems') = Len(redoItems)
         /\ \A i \in 1..Len(undoItems) : Frame(undoItems[i], undoItems'[i], UndoFlags)
         /\ \A i \in 1..Len(redoItems) : Frame(redoItems[i], redoItems'[i], RedoFlags)
         /\ LineStates(doc') = LineStates(markModifiedLinesAsSaved(doc))]_vars

\* After a save: an undone WrapLine whose undo flag was rewritten and whose
\* redo flags are those of its construction.
C17_Witness ==
    /\ lastOp = "save" /\ hist = <<"undo", "save">>
    /\ LastItem.kind = "WrapLine" /\ pre.l1 = Modified
    /\ isFlagSet(LastItem.flags, "UndoLine1Saved")
    /\ isFlagSet(LastItem.flags, "RedoLine1Modified")

-----------------------------------------------------------------------------
(* Properties of the text line *)

\* The runs of the list that contain pos.
RunsAt(list, pos) ==
    {i \in 1..Len(list) : list[i].offset <= pos /\ pos < list[i].offset + list[i].length}

\* The runs are sorted by offset and do not overlap.
SortedRuns(list) ==
    \A i \in 1..(Len(list) - 1) : list[i].offset + list[i].length <= list[i + 1].offset

\* The visual columns at which a character of the text starts, and the
\* visual end of the text.
VisualStarts(text, tabWidth) ==
    {virtualLength(SubSeq(text, 1, k), tabWidth) : k \in 0..Len(text)}

\* C18: on a list of runs sorted by offset and not overlapping, at most
\* one run contains a position, and attribute(pos) is the attributeValue
\* of that run, and 0 when no run contains pos.
C18_AttributeIsTheRunAt ==
    /\ SortedRuns(m_attributesList)
    /\ call.op = "attribute" =>
         LET runs == RunsAt(m_attributesList, call.column)
         IN /\ Cardinality(runs) <= 1
            /\ runs = {} => call.result = 0
            /\ \A i \in runs : call.result = m_attributesList[i].attributeValue

\* Lookups on a list of three runs with a gap: one inside the middle run,
\* which the search finds, and (in other states) those in the gap.
C18_Witness ==
    /\ call.op = "attribute"
    /\ Len(m_attributesList) = 3
    /\ m_attributesList[2].offset > m_attributesList[1].offset + m_attributesList[1].length
    /\ RunsAt(m_attributesList, call.column) = {2}
    /\ call.result = m_attributesList[2].attributeValue

\* C19: after any sequence of addAttribute calls in non-decreasing offset
\* order with spans that do not overlap, no two consecutive runs of the
\* list have the same attributeValue.
C19_NoTwoConsecutiveSameValue ==
    \A i \in 1..(Len(m_attributesList) - 1) :
        m_attributesList[i].attributeValue # m_attributesList[i + 1].attributeValue

\* C20: for a virtual column v >= 0 that is the visual start of a
\* character, the visual end of the line or beyond it,
\* toVirtualColumn(fromVirtualColumn(v, w), w) = v.
C20_VirtualColumnRoundTrip ==
    (/\ call.op = "fromVirtualColumn"
     /\ call.column >= 0
     /\ \/ call.column \in VisualStarts(m_text, call.tabWidth)
        \/ call.column >= virtualLength(m_text, call.tabWidth))
      => call.back = call.column

\* The column at which the character after a tab of width 4 starts.
C20_Witness ==
    /\ call.op = "fromVirtualColumn"
    /\ Len(m_text) >= 2 /\ m_text[1] = Tab
    /\ call.tabWidth = 4 /\ call.column = 4
    /\ call.result = 1 /\ call.back = 4

\* The visual column at which the character of index k starts.
VisualStart(text, k, tabWidth) == virtualLength(SubSeq(text, 1, k), tabWidth)

\* The indices of the tabs whose expansion has the column strictly inside.
TabsCovering(text, column, tabWidth) ==
    {k \in 0..(Len(text) - 1) :
        /\ text[k + 1] = Tab
        /\ VisualStart(text, k, tabWidth) < column
        /\ column < VisualStart(text, k + 1, tabWidth)}

\* The indices of the characters of the text that are not whitespace.
NonSpace(text) == {i \in 0..(Len(text) - 1) : ~isSpace(text[i + 1])}

\* The least and the greatest element of a set of indices, -1 if it is empty.
Least(S) == IF S = {} THEN -1 ELSE CHOOSE i \in S : \A j \in S : i <= j

Greatest(S) == IF S = {} THEN -1 ELSE CHOOSE i \in S : \A j \in S : i >= j

\* C21 as stated: for a virtual column strictly inside the expansion of a
\* tab, fromVirtualColumn returns the index of that tab.
C21_InsideTabGivesTabIndex ==
    call.op = "fromVirtualColumn" =>
        \A k \in TabsCovering(m_text, call.column, call.tabWidth) : call.result = k

\* C21 as amended: for a virtual column strictly inside the expansion of a
\* tab, fromVirtualColumn returns the index of that tab plus the distance
\* of the column from the visual start of the tab.
C21_InsideTabGivesTabIndexPlusExcess ==
    call.op = "fromVirtualColumn" =>
        \A k \in TabsCovering(m_text, call.column, call.tabWidth) :
            call.result = k + (call.column - VisualStart(m_text, k, call.tabWidth))

\* Column 3 of "x<tab>.." with tabs of width 4: the tab covers 1 .. 3.
C21_Witness ==
    /\ call.op = "fromVirtualColumn"
    /\ Len(m_text) >= 2 /\ m_text[1] = "x" /\ m_text[2] = Tab
    /\ call.tabWidth = 4 /\ call.column = 3
    /\ TabsCovering(m_text, call.column, call.tabWidth) = {1}
    /\ call.result = 3

\* C22: toVirtualColumn of a negative column is 0, and of a column greater
\* than the length of the line it is virtualLength plus the excess of the
\* column over the length.
C22_ToVirtualColumnOutsideLine ==
    call.op = "toVirtualColumn" =>
        /\ call.column < 0 => call.result = 0
        /\ call.column > Len(m_text) =>
             call.result = virtualLength(m_text, call.tabWidth) + (call.column - Len(m_text))

\* A column two past the end of a line with a tab of width 4.
C22_Witness ==
    /\ call.op = "toVirtualColumn"
    /\ Len(m_text) >= 1 /\ m_text[1] = Tab /\ call.tabWidth = 4
    /\ call.column = Len(m_text) + 2
    /\ call.result = virtualLength(m_text, 4) + 2
    /\ call.result > call.column

\* C23: for a line of tabs only, virtualLength(w) is w times the length of
\* the line.
C23_AllTabsVirtualLength ==
    (call.op = "virtualLength" /\ \A i \in 1..Len(m_text) : m_text[i] = Tab)
        => call.result = call.tabWidth * Len(m_text)

C23_Witness ==
    /\ call.op = "virtualLength" /\ call.tabWidth = 4
    /\ Len(m_text) = 3 /\ \A i \in 1..Len(m_text) : m_text[i] = Tab
    /\ call.result = 12

\* C24: firstChar() is the least index of a character that is not
\* whitespace, lastChar() the greatest, and both are -1 when the line has
\* no such character (empty or whitespace only).
C24_FirstAndLastChar ==
    /\ call.op = "firstChar" => call.result = Least(NonSpace(m_text))
    /\ call.op = "lastChar" => call.result = Greatest(NonSpace(m_text))

\* lastChar of a line with whitespace after its last other character.
C24_Witness ==
    /\ call.op = "lastChar"
    /\ Len(m_text) = 3 /\ isSpace(m_text[1]) /\ ~isSpace(m_text[2]) /\ isSpace(m_text[3])
    /\ call.result = 1

\* C25: previousNonSpaceChar(pos) is the greatest index i <= min(pos,
\* length - 1) of a character that is not whitespace, -1 if there is none;
\* nextNonSpaceChar(pos), pos >= 0, is the least such index i >= pos, -1 if
\* there is none.
C25_PreviousAndNextNonSpaceChar ==
    /\ call.op = "previousNonSpaceChar" =>
         call.result = Greatest({i \in NonSpace(m_text) : i <= qMin(call.column, Len(m_text) - 1)})
    /\ call.op = "nextNonSpaceChar" =>
         call.result = Least({i \in NonSpace(m_text) : i >= call.column})

\* previousNonSpaceChar from past the end of a line that ends in whitespace.
C25_Witness ==
    /\ call.op = "previousNonSpaceChar"
    /\ Len(m_text) = 2 /\ ~isSpace(m_text[1]) /\ isSpace(m_text[2])
    /\ call.column > Len(m_text)
    /\ call.result = 0

C27_IndentDepth ==
    call.op = "indentDepth" =>
        call.result = IF NonSpace(m_text) = {}
                      THEN virtualLength(m_text, call.tabWidth)
                      ELSE toVirtualColumn(m_text, firstChar(m_text), call.tabWidth)

\* A space, a tab of width 4 (which advances to column 4), then text.
C27_Witness ==
    /\ call.op = "indentDepth" /\ call.tabWidth = 4
    /\ m_text = <<" ", Tab, "x">>
    /\ call.result = 4

-----------------------------------------------------------------------------
(* Further properties of the ledger *)

\* What a step does to the sequence of lines, from the record it applies
\* and its direction.
StepShape ==
    LET forward == lastOp' \in {"edit", "redo"}
        kind == StepItem.kind
    IN CASE kind \in {"InsertText", "RemoveText"} -> "inPlace"
         [] kind = "WrapLine"   -> IF forward THEN "split" ELSE "join"
         [] kind = "UnWrapLine" -> IF forward THEN "join" ELSE "split"
         [] kind = "InsertLine" -> IF forward THEN "insert" ELSE "remove"
         [] kind = "RemoveLine" -> IF forward THEN "remove" ELSE "insert"

\* The pairs (index before, index after) of the lines a step does not
\* affect: those other than the line edited in place, than the line split
\* or the two lines joined, and than the line inserted or removed.
Unaffected ==
    LET l == StepItem.line
        before == 0..(Len(doc) - 1)
    IN CASE StepShape = "inPlace" -> {<<i, i>> : i \in before \ {l}}
         [] StepShape = "split" ->
                {<<i, i>> : i \in {k \in before : k < l}}
                \cup {<<i, i + 1>> : i \in {k \in before : k > l}}
         [] StepShape = "join" ->
                {<<i, i>> : i \in {k \in before : k < l}}
                \cup {<<i, i - 1>> : i \in {k \in before : k > l + 1}}
         [] StepShape = "insert" ->
                {<<i, i>> : i \in {k \in before : k < l}}
                \cup {<<i, i + 1>> : i \in {k \in before : k >= l}}
         [] StepShape = "remove" ->
                {<<i, i>> : i \in {k \in before : k < l}}
                \cup {<<i, i - 1>> : i \in {k \in before : k > l}}

C29_UndoRedoRoundTrip ==
    [][(lastOp = "undo" /\ lastOp' = "redo") =>
         \A slot \in RedoSlots(StepItem) :
             LineState(doc'[slot.line + 1]) = preUndo[slot.line + 1]]_vars

\* C30: after an undo or a redo no line has both its modified flag and its
\* savedOnDisk flag set.
C30_NeverModifiedAndSaved ==
    lastOp \in {"undo", "redo"} =>
        \A i \in 1..Len(doc) : ~(markedAsModified(doc[i]) /\ markedAsSavedOnDisk(doc[i]))

\* A WrapLine redone after a save had rewritten its flags: both halves are
\* marked from the rewritten flags.
C30_Witness ==
    /\ LastItemJustRedone /\ hist = <<"save", "undo", "redo">>
    /\ LastItem.kind = "WrapLine" /\ LastItem.col > 0 /\ LastItem.len > 0
    /\ StateAt(LastItem.line) = SavedOnDisk /\ StateAt(LastItem.line + 1) = SavedOnDisk

\* The steps of the pass over a list of records, from records[i] down: the
\* record of each step and the marker array the step finds.
RECURSIVE redoPassSteps(_, _, _)
redoPassSteps(items, i, lines) ==
    IF i = 0 THEN {}
    ELSE {[item |-> items[i], lines |-> lines, dir |-> "redo"]}
         \cup redoPassSteps(items, i - 1, updateRedoSavedOnDiskFlag(items[i], lines).lines)

RECURSIVE undoPassSteps(_, _, _)
undoPassSteps(items, i, lines) ==
    IF i = 0 THEN {}
    ELSE {[item |-> items[i], lines |-> lines, dir |-> "undo"]}
         \cup undoPassSteps(items, i - 1, updateUndoSavedOnDiskFlag(items[i], lines).lines)

\* The steps of the two passes a save runs in the current state.
PassSteps ==
    redoPassSteps(undoItems, Len(undoItems), <<>>)
    \cup undoPassSteps(redoItems, Len(redoItems), <<>>)

\* The marker array a step leaves.
After(step) ==
    IF step.dir = "redo"
    THEN updateRedoSavedOnDiskFlag(step.item, step.lines).lines
    ELSE updateUndoSavedOnDiskFlag(step.item, step.lines).lines

\* The marker indices a step reads or writes: those of the lines of the
\* record's flag pairs of the direction.
Accessed(step) ==
    {slot.line : slot \in IF step.dir = "redo" THEN RedoSlots(step.item) ELSE UndoSlots(step.item)}

\* C31: in every step of a reconciliation pass the marker array the step
\* works on covers every index the step reads or writes, is not shorter
\* than the array the step found, and has every marker set that was set in
\* it.
C31_MarkersCoverEveryAccess ==
    \A step \in PassSteps :
        /\ \A k \in Accessed(step) : k < Len(After(step))
        /\ Len(After(step)) >= Len(step.lines)
        /\ \A k \in 1..Len(step.lines) : step.lines[k] => After(step)[k]

\* A step whose record lies beyond the markers set so far: the array is
\* grown and the marker of line 0 is kept.
C31_Witness ==
    \E step \in PassSteps :
        /\ Len(step.lines) >= 1 /\ step.lines[1]
        /\ step.item.line >= Len(step.lines)
        /\ Len(After(step)) > Len(step.lines)
        /\ After(step)[1]

\* The flags a record of the kind can carry.
FlagsOfKind(kind) ==
    CASE kind \in {"InsertText", "RemoveText"} ->
            {"RedoLine1Modified", "RedoLine1Saved", "UndoLine1Modified", "UndoLine1Saved"}
      [] kind = "WrapLine" -> ModifiedFlags \ {"UndoLine2Modified", "UndoLine2Saved"}
      [] kind = "UnWrapLine" -> ModifiedFlags \ {"RedoLine2Modified", "RedoLine2Saved"}
      [] kind = "InsertLine" -> {"RedoLine1Modified", "RedoLine1Saved"}
      [] kind = "RemoveLine" -> {"UndoLine1Modified", "UndoLine1Saved"}

FlagPairs ==
    {<<"RedoLine1Modified", "RedoLine1Saved">>, <<"RedoLine2Modified", "RedoLine2Saved">>,
     <<"UndoLine1Modified", "UndoLine1Saved">>, <<"UndoLine2Modified", "UndoLine2Saved">>}

\* No Saved flag in new in a pair of which old has neither flag.
NoSavedFromNothing(old, new) ==
    \A p \in FlagPairs :
        (p[1] \notin old.flags /\ p[2] \notin old.flags) => p[2] \notin new.flags

\* C32: after every step each record of the ledger carries flags only in
\* the pairs of its kind, an InsertText or RemoveText record exactly one
\* flag in each of its two pairs, and a save sets no Saved flag in a pair
\* of which the record had neither flag.
C32_FlagPairsFixedByKind ==
    [][/\ \A items \in {undoItems', redoItems'} : \A i \in 1..Len(items) :
            /\ items[i].flags \subseteq FlagsOfKind(items[i].kind)
            /\ SingleLine(items[i]) =>
                 /\ Cardinality(items[i].flags \cap {"RedoLine1Modified", "RedoLine1Saved"}) = 1
                 /\ Cardinality(items[i].flags \cap {"UndoLine1Modified", "UndoLine1Saved"}) = 1
       /\ lastOp' = "save" =>
            /\ \A i \in 1..Len(undoItems) : NoSavedFromNothing(undoItems[i], undoItems'[i])
            /\ \A i \in 1..Len(redoItems) : NoSavedFromNothing(redoItems[i], redoItems'[i])]_vars

\* After a save: an applied UnWrapLine constructed without a redo flag, the
\* most recent record for its line, still without one.
C32_Witness ==
    /\ lastOp = "save" /\ LastApplied
    /\ LastItem.kind = "UnWrapLine"
    /\ NoFlag(LastItem, Slot(LastItem.line, "RedoLine1Modified", "RedoLine1Saved"))

\* C33: for a character column c >= 0, inside or past the line,
\* fromVirtualColumn(toVirtualColumn(c, w), w) = c, and toVirtualColumn of
\* c + 1 is greater than that of c.
C33_CharacterColumnRoundTrip ==
    (call.op = "toAndFromVirtualColumn" /\ call.column >= 0)
      => /\ call.back = call.column
         /\ call.result < toVirtualColumn(m_text, call.column + 1, call.tabWidth)

\* The column after a space and a tab of width 4, which is virtual column 4.
C33_Witness ==
    /\ call.op = "toAndFromVirtualColumn" /\ call.tabWidth = 4
    /\ Len(m_text) = 3 /\ m_text[1] = " " /\ m_text[2] = Tab
    /\ call.column = 2 /\ call.result = 4 /\ call.back = 2

\* The names of the numbered registers, first to last.
NumberedRegisters == <<"1", "2", "3", "4", "5", "6", "7", "8", "9">>

IsNumbered(reg) ==
    unicode(reg) >= unicode(FirstNumberedRegister) /\ unicode(reg) <= unicode(LastNumberedRegister)

\* C34: after set() on a numbered register with a text, the first numbered
\* register reads that text, each later numbered register reads what the
\* one before it read before the call, and the kill ring holds at most 9
\* entries.
C34_KillRingShifts ==
    [][(rcall'.op = "set" /\ IsNumbered(rcall'.reg)) =>
          /\ getRegister(thisRegisters', FirstNumberedRegister).first = rcall'.text
          /\ \A k \in 1..8 :
                getRegister(thisRegisters', NumberedRegisters[k + 1])
                  = getRegister(thisRegisters, NumberedRegisters[k])
          /\ Len(m_numbered') <= 9]_vars

\* set() on register 9 found the ring full: its text is first, the text
\* that was first is second.
C34_Witness ==
    /\ rcall.op = "set" /\ rcall.reg = LastNumberedRegister /\ rcall.size = 9
    /\ Len(m_numbered) = 9
    /\ rcall.text = <<"y">>
    /\ getRegister(thisRegisters, FirstNumberedRegister).first = <<"y">>
    /\ getRegister(thisRegisters, "2").first = <<"x">>
    /\ getRegister(thisRegisters, LastNumberedRegister).first = <<"y">>

\* C35: once set() was called on the zero, the first numbered or the
\* small-delete register, the unnamed register reads what the one of them
\* most recently passed to set() reads, whatever other registers set() was
\* called on since.
C35_UnnamedIsMostRecentDefault ==
    rcall.recent # NullChar =>
        getRegister(thisRegisters, UnnamedRegister) = getRegister(thisRegisters, rcall.recent)

\* The small-delete register was set, then the last numbered register: the
\* unnamed register still reads the small-delete register, not the ring.
C35_Witness ==
    /\ rcall.op = "set" /\ rcall.reg = LastNumberedRegister
    /\ rcall.recent = SmallDeleteRegister
    /\ getRegister(thisRegisters, UnnamedRegister).first = <<"z">>
    /\ getRegister(thisRegisters, FirstNumberedRegister).first = <<"x">>
    /\ getRegister(thisRegisters, ZeroRegister).first = <<"z">>

\* C36: set() on the black hole register changes neither the named
\* registers, nor the kill ring, nor the register the unnamed register
\* stands for, nor the clipboard.
C36_BlackHoleChangesNothing ==
    [][(rcall'.op = "set" /\ rcall'.reg = BlackHoleRegister) =>
          UNCHANGED <<m_registers, m_numbered, m_default, clipboard>>]_vars

\* set() on the black hole register with named registers and the kill ring
\* filled.
C36_Witness ==
    /\ rcall.op = "set" /\ rcall.reg = BlackHoleRegister
    /\ DOMAIN m_registers = {ZeroRegister, SmallDeleteRegister}
    /\ Len(m_numbered) = 2
    /\ m_default = FirstNumberedRegister

\* The entries of a configuration with a name that is not empty, in list
\* order.
NamedEntries(names) ==
    SelectSeq([i \in 1..Len(names) |-> i], LAMBDA i : names[i] # <<>>)

\* set() called for the entries of entries from the j-th on.
RECURSIVE SetEach(_, _, _, _, _, _)
SetEach(r, names, contents, flags, entries, j) ==
    IF j > Len(entries) THEN r
    ELSE LET i == entries[j]
         IN SetEach(set(r, names[i][1], contents[i], OperationMode(flags[i]), FALSE),
                    names, contents, flags, entries, j + 1)

C38_EmptyTextClearsAtOnce ==
    [][(lineEdit' # lineEdit /\ lineEdit' = <<>>) => scall'.runs = << <<>> >>]_vars

\* C39: when no timer is pending, m_queuedSearches is 0 and updateSearch has
\* run since the last change of the text, with the text of the line edit;
\* and every run of updateSearch used the text most recently queued.
C39_SearchSettles ==
    /\ timers = 0 =>
         /\ m_queuedSearches = 0
         /\ ~scall.stale
         /\ scall.shown # NoSearchText => scall.shown = lineEdit
    /\ \A i \in 1..Len(scall.runs) : scall.runs[i] = scall.queued

\* The last pending timer fired and updateSearch ran with the text typed.
C39_Witness ==
    /\ scall.op = "timeout" /\ timers = 0
    /\ lineEdit = <<"a", "a">>
    /\ scall.runs = <<lineEdit>>
    /\ m_queuedSearches = 0

====
